---- MODULE Spec2Model ----
(***************************************************************************)
(* Model of rk1476/rss_feed: the PDF chunking pipeline (pdf_processor.py)  *)
(* and the two-pass summarization orchestrator with its retry wrapper and  *)
(* rate limiter (gemini_api.py).                                           *)
(*                                                                         *)
(* A text is a sequence of one-character strings.  Two specifications:     *)
(*   Spec       summarize_pdf_with_gemini / summarize_chunked_pdf /        *)
(*              call_gemini_with_retry, one thread                         *)
(*   SpecChunk  chunk_text_semantic / chunk_text_fixed_size /              *)
(*              chunk_text_page_based called on bounded texts              *)
(***************************************************************************)
EXTENDS Integers, Sequences, FiniteSets, TLC

\* ---------------------------------------------------------------- bounds
\* longest chunk list handed directly to summarize_chunked_pdf
MaxChunks == 3
\* largest max_retries of a direct call of call_gemini_with_retry
MaxRetriesArg == 1
\* longest duration (clock ticks) of one generate_content call
MaxCallTime == 1
\* largest number of lines of a generated text
MaxLines == 3
\* largest max_chunk_size of a direct chunker call
MaxChunkArg == 10
\* largest overlap_chars of a direct chunker call
MaxOverlapArg == 2
\* a window loop is followed for at most this many windows
MaxWindows == 4

\* ------------------------------------------------------ program constants
MIN_REQUEST_INTERVAL == 6
DEFAULT_MAX_RETRIES == 5
BASE_DELAY == 2
RETRY_BUFFER == 1
PAGE_LIMIT == 50
CHAR_LIMIT == 500000
TOKEN_LIMIT == 125000
CHARS_PER_TOKEN == 4
DEFAULT_MAX_CHUNK_SIZE == 500000
MIN_OVERLAP == 50000
OVERLAP_DIVISOR == 10
CHARS_PER_PAGE == 2000
BREAK_LOOKBACK == 200
MIN_HEADER_LEN == 3
CAPS_MAX_LEN == 100
CAPS_MAX_WORDS == 10
KEYWORD_MAX_LEN == 150
STANDALONE_MIN_WORDS == 3
STANDALONE_MAX_WORDS == 8
\* time.time() at the first call: seconds since the epoch, far above the interval
StartTime == 100

VARIABLES
    entry,              \* the function the run calls
    pc,                 \* position of the single thread
    ret,                \* where the chunker returns to
    text,               \* cleaned text / the chunker's text argument
    page_count,         \* metadata["page_count"]
    needs_chunk,        \* metadata["needs_chunking"]
    chunks,             \* result.chunks / the chunker's result list
    max_chunk_size,     \* chunker argument
    overlap_chars,      \* chunker argument
    sections,           \* detect_sections(text)
    sec,                \* index of the next section of the semantic loop
    current_chunk,      \* chunk_text_semantic local
    current_size,       \* chunk_text_semantic local
    win_text,           \* text argument of the running window loop
    win_start,          \* start of the window loop
    win_size,           \* window size of the loop
    win_kind,           \* "fixed" | "page" | "none"
    windows,            \* windows emitted by the running loop
    idx,                \* Pass 1 loop index (1-based, as enumerate(.., 1))
    chunk_summaries,    \* summarize_chunked_pdf local
    caller,             \* call site of the running call_gemini_with_retry
    max_retries,        \* its max_retries argument
    attempt,            \* its loop variable
    call_result,        \* "none" | "response" | "raised" | "no_response"
    now,                \* time.time(), in seconds; the clock does not run backwards
    last_request_time,  \* the module global _last_request_time
    outcome,            \* result of the entry function
    requests,           \* history: logical requests in submission order
    succeeded,          \* history: Pass 1 chunk indices whose call returned
    attempts,           \* history: outbound attempts of the running call
    gated,              \* history: enforce_rate_limit ran since the last attempt
    last_error,         \* history: the error the last attempt failed with
    slept               \* history: the handler of that error slept

VARIABLES
    text_length,        \* len(text) of a direct call of needs_chunking
    reason              \* the reason needs_chunking returned

VARIABLES
    name,               \* the argument of normalize_company_name
    normalized,         \* what its successive applications returned
    search_name,        \* fuzzy_match_company_name: the company name searched for
    blob,               \* fuzzy_match_company_name: the text searched in
    row_match           \* what fuzzy_match_company_name returned

VARIABLES
    df,                 \* search_stocks_in_dataframe: the table, a list of rows
    stocks_list,        \* the symbols searched for
    empty_assign,       \* what assigning an empty selection to a new column does
    stock_i,            \* index of the next symbol of the loop over stocks_list
    mask,               \* per row: some symbol matched
    matched_map,        \* per row: the symbols that matched
    matched_df          \* the returned rows with their Matched_Stock

VARIABLES
    excel_file,         \* the store file: whether it exists, has a Source column, its rows
    today,              \* run_full_fetch: the day of the run
    df_new,             \* the rows fetched by the run
    df_combined,        \* df_final before the retention step
    df_final,           \* the table the run returns
    run_count           \* the number of the run

VARIABLES
    fs_clock,           \* the time of the file system
    served_file,        \* the store file as the server sees it: version, mtime
    cache_df,           \* SearchCache.df: the version of the table it holds
    cache_mtime,        \* SearchCache.mtime
    cache_read_at,      \* the time at which cache_df was read
    mtime,              \* SearchCache.load: the local mtime
    old_df,             \* cache_df when the load began
    old_mtime,          \* cache_mtime when the load began
    load_read,          \* the load has read the file
    loads,              \* the number of the load
    read_open           \* the file as pd.read_excel found it when it opened it

VARIABLES
    is_available,       \* process_pdf: per extractor, whether its library is there
    extract_outcome,    \* per extractor, what calling it on the file does
    method_i,           \* index of the next entry of extraction_methods
    extracted_text,     \* the extracted text
    extraction_method,  \* result.metadata["extraction_method"]
    tried               \* the extractors called so far

VARIABLES
    http_request,       \* SearchHandler: the request
    env,                \* what the store, the download and the summary do
    responses,          \* the statuses of the responses sent
    escaped,            \* an exception left the handler
    operation,          \* how the requested operation ended
    pdf_exists          \* os.path.exists(pdf_path): the downloaded file is there

VARIABLES
    wall,               \* enforce_rate_limit called by threads: time.time()
    shared_last,        \* the global _last_request_time
    thr,                \* per thread: its position and its locals
    released            \* the times at which the calls returned

VARIABLES
    interactive,        \* main: is_interactive()
    mode_input,         \* what the user types at the run-mode prompt
    run_mode,           \* main: run_mode
    user_input,         \* the answer to the stock-filter prompt, as main holds it
    fetched,            \* the feeds were fetched
    store_version,      \* the store file: 0 for none, else the number of its version
    store_before        \* the store file when main began

\* the state of the calls of the other specifications
varsLimiter == <<wall, shared_last, thr, released>>
varsMain == <<interactive, mode_input, run_mode, user_input, fetched, store_version,
              store_before>>
varsMore == <<varsLimiter, varsMain>>
varsStore == <<excel_file, today, df_new, df_combined, df_final, run_count>>
varsCache == <<fs_clock, served_file, cache_df, cache_mtime, cache_read_at, mtime, old_df,
               old_mtime, load_read, loads, read_open>>
varsExtract == <<is_available, extract_outcome, method_i, extracted_text,
                 extraction_method, tried>>
varsHandler == <<http_request, env, responses, escaped, operation, pdf_exists>>
varsSrv == <<varsStore, varsCache, varsExtract, varsHandler, varsMore>>
varsNeeds == <<text_length, reason>>
varsMatch == <<name, normalized, search_name, blob, row_match>>
varsSearch == <<df, stocks_list, empty_assign, stock_i, mask, matched_map, matched_df>>
varsExt == <<varsNeeds, varsMatch, varsSearch, varsSrv>>

varsSumm == <<idx, chunk_summaries, caller, max_retries, attempt, call_result, now,
              last_request_time, outcome, requests, succeeded, attempts,
              gated, last_error, slept>>
varsChunk == <<chunks, max_chunk_size, overlap_chars, sections, sec, current_chunk,
               current_size, win_text, win_start, win_size, win_kind, windows>>
vars == <<entry, pc, ret, text, page_count, needs_chunk, varsChunk, varsSumm, varsExt>>

\* ------------------------------------------------------------- characters
NL == "\n"
SP == " "
UpperSeq == <<"A","B","C","D","E","F","G","H","I","J","K","L","M",
              "N","O","P","Q","R","S","T","U","V","W","X","Y","Z">>
LowerSeq == <<"a","b","c","d","e","f","g","h","i","j","k","l","m",
              "n","o","p","q","r","s","t","u","v","w","x","y","z">>
UpperChars == {UpperSeq[i] : i \in 1..Len(UpperSeq)}
LowerChars == {LowerSeq[i] : i \in 1..Len(LowerSeq)}
DigitChars == {"0","1","2","3","4","5","6","7","8","9"}
IsSpace(c) == c \in {SP, NL}

Min(a, b) == IF a < b THEN a ELSE b
Max(a, b) == IF a > b THEN a ELSE b
SetMin(S) == CHOOSE x \in S : \A y \in S : x <= y
SetMax(S) == CHOOSE x \in S : \A y \in S : x >= y

\* str.lower() of one character
LowerChar(c) ==
    IF c \in UpperChars
    THEN LowerSeq[CHOOSE i \in 1..Len(UpperSeq) : UpperSeq[i] = c]
    ELSE c
StrLower(s) == [i \in 1..Len(s) |-> LowerChar(s[i])]

\* str.strip()
Strip(s) ==
    LET keep == {i \in 1..Len(s) : ~IsSpace(s[i])}
    IN  IF keep = {} THEN <<>> ELSE SubSeq(s, SetMin(keep), SetMax(keep))

\* s[-n:] if len(s) > n else s   (n > 0)
LastChars(s, n) == IF Len(s) > n THEN SubSeq(s, Len(s) - n + 1, Len(s)) ELSE s

\* s.rfind(c, lo): highest 0-based index >= lo holding c, or -1
RFind(s, c, lo) ==
    LET hits == {i \in 1..Len(s) : s[i] = c /\ i - 1 >= lo}
    IN  IF hits = {} THEN 0 - 1 ELSE SetMax(hits) - 1

\* sub in s
Contains(s, sub) ==
    \E i \in 0..(Len(s) - Len(sub)) : SubSeq(s, i + 1, i + Len(sub)) = sub

\* text.split('\n')
RECURSIVE SplitLines(_)
SplitLines(s) ==
    LET nl == {i \in 1..Len(s) : s[i] = NL}
    IN  IF nl = {} THEN <<s>>
        ELSE LET k == SetMin(nl)
             IN  <<SubSeq(s, 1, k - 1)>> \o SplitLines(SubSeq(s, k + 1, Len(s)))

\* len(s.split()): runs of non-whitespace
WordCount(s) ==
    Cardinality({i \in 1..Len(s) : ~IsSpace(s[i]) /\ (i = 1 \/ IsSpace(s[i - 1]))})

\* str.isupper(): some cased character, no lower-case one
IsUpper(s) ==
    /\ \E i \in 1..Len(s) : s[i] \in UpperChars
    /\ \A i \in 1..Len(s) : s[i] \notin LowerChars

\* re.match(r'^\d+[\.\)]\s+[A-Z]', s)
NumberedHeader(s) ==
    \E d \in 1..Len(s) : \E w \in 1..Len(s) :
        /\ d + 1 + w + 1 <= Len(s)
        /\ \A i \in 1..d : s[i] \in DigitChars
        /\ s[d + 1] \in {".", ")"}
        /\ \A i \in (d + 2)..(d + 1 + w) : IsSpace(s[i])
        /\ s[d + 2 + w] \in UpperChars

section_keywords ==
    { <<"r","e","v","e","n","u","e">>, <<"p","r","o","f","i","t">>,
      <<"g","u","i","d","a","n","c","e">>, <<"o","u","t","l","o","o","k">>,
      <<"r","e","s","u","l","t","s">>, <<"f","i","n","a","n","c","i","a","l">>,
      <<"o","p","e","r","a","t","i","o","n","s">>,
      <<"m","a","n","a","g","e","m","e","n","t">>,
      <<"d","i","s","c","u","s","s","i","o","n">>,
      <<"a","n","a","l","y","s","i","s">>,
      <<"h","i","g","h","l","i","g","h","t","s">>,
      <<"s","u","m","m","a","r","y">>, <<"o","v","e","r","v","i","e","w">>,
      <<"c","o","n","c","l","u","s","i","o","n">>,
      <<"a","p","p","e","n","d","i","x">>, <<"a","n","n","e","x","u","r","e">> }

\* ---------------------------------------------------------- detect_sections
INTRO_TITLE == <<"I","n","t","r","o","d","u","c","t","i","o","n">>

\* lines[i] of the 0-based list
LineAt(lines, i) == lines[i + 1]

\* the header test of line i (0-based), patterns 1 to 4
IsHeaderLine(lines, i) ==
    LET line_stripped == Strip(LineAt(lines, i))
        word_count == WordCount(line_stripped)
    IN  \/ /\ IsUpper(line_stripped)
           /\ Len(line_stripped) < CAPS_MAX_LEN
           /\ WordCount(line_stripped) < CAPS_MAX_WORDS
        \/ NumberedHeader(line_stripped)
        \/ /\ \E keyword \in section_keywords : Contains(StrLower(line_stripped), keyword)
           /\ Len(line_stripped) < KEYWORD_MAX_LEN
        \/ /\ STANDALONE_MIN_WORDS <= word_count
           /\ word_count <= STANDALONE_MAX_WORDS
           /\ i > 0
           /\ Strip(LineAt(lines, i - 1)) = <<>>
           /\ i + 1 < Len(lines)
           /\ Strip(LineAt(lines, i + 1)) # <<>>

\* the loop over the lines: the sections saved so far and the current section
RECURSIVE DetectLoop(_, _, _, _)
DetectLoop(lines, i, saved, current_section) ==
    IF i >= Len(lines) THEN [saved |-> saved, current_section |-> current_section]
    ELSE LET line_stripped == Strip(LineAt(lines, i))
         IN  IF Len(line_stripped) < MIN_HEADER_LEN \/ ~IsHeaderLine(lines, i)
             THEN DetectLoop(lines, i + 1, saved, current_section)
             ELSE DetectLoop(lines, i + 1,
                      IF current_section.start < i
                      THEN Append(saved, [current_section EXCEPT !.end = i])
                      ELSE saved,
                      [title |-> line_stripped, start |-> i, end |-> Len(lines)])

\* line_positions[k] (0-based k): characters before line k
LinePosition(lines, k) ==
    LET RECURSIVE Sum(_)
        Sum(j) == IF j = 0 THEN 0 ELSE Sum(j - 1) + Len(lines[j]) + 1
    IN  Sum(k)

\* detect_sections without its last step, "Add final section"
detect_sections_NoFinal(t) ==
    LET lines == SplitLines(t)
        loop == DetectLoop(lines, 0, <<>>, [title |-> INTRO_TITLE, start |-> 0, end |-> 0])
        all == loop.saved
    IN  [k \in 1..Len(all) |->
            [title |-> all[k].title, start |-> all[k].start, end |-> all[k].end,
             char_start |-> LinePosition(lines, all[k].start),
             char_end |-> LinePosition(lines, Min(all[k].end, Len(lines)))]]

detect_sections(t) ==
    LET lines == SplitLines(t)
        loop == DetectLoop(lines, 0, <<>>, [title |-> INTRO_TITLE, start |-> 0, end |-> 0])
        all == IF loop.current_section.start < Len(lines)
               THEN Append(loop.saved, [loop.current_section EXCEPT !.end = Len(lines)])
               ELSE loop.saved
    IN  [k \in 1..Len(all) |->
            [title |-> all[k].title, start |-> all[k].start, end |-> all[k].end,
             char_start |-> LinePosition(lines, all[k].start),
             char_end |-> LinePosition(lines, Min(all[k].end, Len(lines)))]]

\* ------------------------------------------------------------------ slices
\* text[a:b] with Python's reading of a negative index
PySlice(s, a, b) ==
    LET lo == IF a < 0 THEN Max(Len(s) + a, 0) ELSE Min(a, Len(s))
        hi == IF b < 0 THEN Max(Len(s) + b, 0) ELSE Min(b, Len(s))
    IN  SubSeq(s, lo + 1, hi)

\* prev_chunk[-overlap_chars:] if len(prev_chunk) > overlap_chars else prev_chunk
OverlapText(prev_chunk, n) == LastChars(prev_chunk, n)

SEPARATOR == <<NL, NL>>

\* ------------------------------------------------------------ the chunkers
varsWindow == <<win_text, win_start, win_size, win_kind, windows>>
varsSem == <<sections, sec, current_chunk, current_size>>
varsDoc == <<entry, ret, text, page_count, needs_chunk, max_chunk_size, overlap_chars,
             varsExt>>

\* chunk_size of chunk_text_page_based, for a non-empty text
PageChunkSize(t, max_size) ==
    LET estimated_pages == Max(1, Len(t) \div CHARS_PER_PAGE)
        chars_per_page == IF estimated_pages > 0 THEN Len(t) \div estimated_pages ELSE Len(t)
        pages_per_chunk == Max(1, max_size \div chars_per_page)
    IN  pages_per_chunk * chars_per_page

\* chunk_text_page_based up to its loop; an empty text divides by zero
BeginPageBased ==
    IF Len(text) = 0
    THEN /\ pc' = "raised"
         /\ UNCHANGED varsWindow
    ELSE /\ win_text' = text
         /\ win_start' = 0
         /\ win_size' = PageChunkSize(text, max_chunk_size)
         /\ win_kind' = "page"
         /\ windows' = <<>>
         /\ pc' = "window_loop"

\* chunk_text_semantic up to its loop over the sections
SemStart ==
    /\ pc = "chunk_text_semantic"
    /\ sections' = detect_sections(text)
    /\ IF sections' = <<>>
       THEN /\ BeginPageBased
            /\ UNCHANGED <<chunks, sec, current_chunk, current_size>>
       ELSE /\ chunks' = <<>>
            /\ current_chunk' = <<>>
            /\ current_size' = 0
            /\ sec' = 1
            /\ pc' = "sem_loop"
            /\ UNCHANGED varsWindow
    /\ UNCHANGED <<varsDoc, varsSumm>>

\* the start of a new chunk after a flush: overlap from the previous chunk
NewChunkAfterFlush(flushed, section_text) ==
    IF overlap_chars > 0 /\ Len(flushed) > 0
    THEN OverlapText(flushed[Len(flushed)], overlap_chars) \o SEPARATOR \o section_text
    ELSE section_text

\* one iteration of the loop over the sections
SemSection ==
    /\ pc = "sem_loop"
    /\ sec <= Len(sections)
    /\ LET section == sections[sec]
           section_text == PySlice(text, section.char_start, section.char_end)
           section_size == Len(section_text)
       IN  IF section_size > max_chunk_size
           THEN /\ chunks' = IF current_chunk # <<>>
                             THEN Append(chunks, Strip(current_chunk)) ELSE chunks
                /\ current_chunk' = <<>>
                /\ current_size' = IF current_chunk # <<>> THEN 0 ELSE current_size
                /\ win_text' = section_text
                /\ win_start' = 0
                /\ win_size' = max_chunk_size
                /\ win_kind' = "fixed"
                /\ windows' = <<>>
                /\ pc' = "window_loop"
                /\ sec' = sec
           ELSE /\ IF current_size + section_size > max_chunk_size /\ current_chunk # <<>>
                   THEN LET flushed == Append(chunks, Strip(current_chunk))
                        IN  /\ chunks' = flushed
                            /\ current_chunk' = NewChunkAfterFlush(flushed, section_text)
                            /\ current_size' = IF overlap_chars > 0 /\ Len(flushed) > 0
                                               THEN Len(current_chunk') ELSE section_size
                   ELSE /\ chunks' = chunks
                        /\ current_chunk' = IF current_chunk # <<>>
                                            THEN current_chunk \o SEPARATOR \o section_text
                                            ELSE section_text
                        /\ current_size' = Len(current_chunk')
                /\ sec' = sec + 1
                /\ pc' = "sem_loop"
                /\ UNCHANGED varsWindow
    /\ UNCHANGED <<sections, varsDoc, varsSumm>>

\* after the loop: the final chunk, and the return
SemFinish ==
    /\ pc = "sem_loop"
    /\ sec > Len(sections)
    /\ chunks' = IF current_chunk # <<>> THEN Append(chunks, Strip(current_chunk)) ELSE chunks
    /\ pc' = ret
    /\ UNCHANGED <<varsSem, varsWindow, varsDoc, varsSumm>>

\* chunk_text_fixed_size called directly
FixedStart ==
    /\ pc = "chunk_text_fixed_size"
    /\ win_text' = text
    /\ win_start' = 0
    /\ win_size' = max_chunk_size
    /\ win_kind' = "fixed"
    /\ windows' = <<>>
    /\ pc' = "window_loop"
    /\ UNCHANGED <<chunks, varsSem, varsDoc, varsSumm>>

\* chunk_text_page_based called directly
PageStart ==
    /\ pc = "chunk_text_page_based"
    /\ BeginPageBased
    /\ UNCHANGED <<chunks, varsSem, varsDoc, varsSumm>>

\* the window of one iteration of chunk_text_fixed_size: its chunk and its end
FixedWindow(t, start, size) ==
    LET end == Min(start + size, Len(t))
        chunk == PySlice(t, start, end)
        last_period == RFind(chunk, ".", Max(0, Len(chunk) - BREAK_LOOKBACK))
        last_newline == RFind(chunk, NL, Max(0, Len(chunk) - BREAK_LOOKBACK))
        break_point == Max(last_period, last_newline)
    IN  IF end < Len(t) /\ break_point * 10 > Len(chunk) * 8
        THEN [chunk |-> PySlice(chunk, 0, break_point + 1), end |-> start + break_point + 1]
        ELSE [chunk |-> chunk, end |-> end]

\* the next start of a window loop
NextStart(end) == end - overlap_chars

\* one iteration of the loop of chunk_text_fixed_size
FixedStep ==
    /\ pc = "window_loop"
    /\ win_kind = "fixed"
    /\ win_start < Len(win_text)
    /\ Len(windows) < MaxWindows
    /\ LET w == FixedWindow(win_text, win_start, win_size)
       IN  /\ windows' = Append(windows, Strip(w.chunk))
           /\ win_start' = NextStart(w.end)
    /\ UNCHANGED <<pc, chunks, win_text, win_size, win_kind, varsSem, varsDoc, varsSumm>>

\* the loop of chunk_text_fixed_size ends: back to the caller
FixedReturn ==
    /\ pc = "window_loop"
    /\ win_kind = "fixed"
    /\ ~(win_start < Len(win_text))
    /\ IF entry = "chunk_text_fixed_size"
       THEN /\ chunks' = windows
            /\ pc' = ret
            /\ sec' = sec
       ELSE /\ chunks' = chunks \o windows
            /\ pc' = "sem_loop"
            /\ sec' = sec + 1
    /\ UNCHANGED <<sections, current_chunk, current_size, varsWindow, varsDoc, varsSumm>>

\* one iteration of the loop of chunk_text_page_based
PageStep ==
    /\ pc = "window_loop"
    /\ win_kind = "page"
    /\ win_start < Len(win_text)
    /\ Len(windows) < MaxWindows
    /\ LET end == Min(win_start + win_size, Len(win_text))
           chunk == PySlice(win_text, win_start, end)
           prev_chunk == IF windows # <<>> THEN windows[Len(windows)] ELSE <<>>
           with_overlap == IF win_start > 0 /\ overlap_chars > 0
                           THEN OverlapText(prev_chunk, overlap_chars) \o SEPARATOR \o chunk
                           ELSE chunk
       IN  /\ windows' = Append(windows, Strip(with_overlap))
           /\ win_start' = NextStart(end)
    /\ UNCHANGED <<pc, chunks, win_text, win_size, win_kind, varsSem, varsDoc, varsSumm>>

\* the loop of chunk_text_page_based ends
PageReturn ==
    /\ pc = "window_loop"
    /\ win_kind = "page"
    /\ ~(win_start < Len(win_text))
    /\ chunks' = windows
    /\ pc' = ret
    /\ UNCHANGED <<varsSem, varsWindow, varsDoc, varsSumm>>

\* --------------------------------------------------------- generated texts
RECURSIVE JoinLines(_)
JoinLines(ls) ==
    IF Len(ls) = 0 THEN <<>>
    ELSE IF Len(ls) = 1 THEN ls[1]
    ELSE ls[1] \o <<NL>> \o JoinLines(Tail(ls))

\* every text of 1..n lines, each line one of the given lines
TextsOf(lines, n) == {JoinLines(ls) : ls \in UNION {[1..k -> lines] : k \in 1..n}}

\* blank, too short for a header, an upper-case header, body text, a sentence
ChunkLines == { <<>>, <<"a","b">>, <<"A","A","A">>, <<"a","b","c">>,
                <<"a","b","c","d",".">>, <<"a",SP,"a",SP,"a">> }
ChunkTexts == TextsOf(ChunkLines, MaxLines)

InitSummIdle ==
    /\ idx = 0
    /\ chunk_summaries = <<>>
    /\ caller = "none"
    /\ attempt = 0
    /\ call_result = "none"
    /\ now = StartTime
    /\ last_request_time = 0
    /\ outcome = "none"
    /\ requests = <<>>
    /\ succeeded = {}
    /\ attempts = 0
    /\ gated = FALSE
    /\ last_error = <<>>
    /\ slept = FALSE

\* no call of the other specifications is under way
InitNeedsIdle ==
    /\ text_length = 0
    /\ reason = "none"

InitMatchIdle ==
    /\ name = <<>>
    /\ normalized = <<>>
    /\ search_name = <<>>
    /\ blob = <<>>
    /\ row_match = "none"

InitSearchIdle ==
    /\ df = <<>>
    /\ stocks_list = <<>>
    /\ empty_assign = "none"
    /\ stock_i = 0
    /\ mask = <<>>
    /\ matched_map = <<>>
    /\ matched_df = <<>>

InitStoreIdle ==
    /\ excel_file = [exists |-> FALSE, has_source |-> FALSE, rows |-> <<>>]
    /\ today = 0
    /\ df_new = <<>>
    /\ df_combined = <<>>
    /\ df_final = <<>>
    /\ run_count = 0

\* SearchCache.__init__: df and mtime are None
NOT_LOADED == 0 - 1

InitCacheIdle ==
    /\ fs_clock = 0
    /\ served_file = [exists |-> FALSE, partial |-> FALSE, version |-> 0, mtime |-> 0]
    /\ cache_df = NOT_LOADED
    /\ cache_mtime = NOT_LOADED
    /\ cache_read_at = 0
    /\ mtime = 0
    /\ old_df = NOT_LOADED
    /\ old_mtime = NOT_LOADED
    /\ load_read = FALSE
    /\ loads = 0
    /\ read_open = [exists |-> FALSE, partial |-> FALSE, version |-> 0, mtime |-> 0]

InitExtractIdle ==
    /\ is_available = <<>>
    /\ extract_outcome = <<>>
    /\ method_i = 0
    /\ extracted_text = "None"
    /\ extraction_method = "None"
    /\ tried = <<>>

InitHandlerIdle ==
    /\ http_request = [method |-> "none"]
    /\ env = [none |-> TRUE]
    /\ responses = <<>>
    /\ escaped = FALSE
    /\ operation = "none"
    /\ pdf_exists = FALSE

InitLimiterIdle ==
    /\ wall = 0
    /\ shared_last = 0
    /\ thr = <<>>
    /\ released = <<>>

InitMainIdle ==
    /\ interactive = FALSE
    /\ mode_input = <<>>
    /\ run_mode = "none"
    /\ user_input = "none"
    /\ fetched = FALSE
    /\ store_version = 0
    /\ store_before = 0

InitMoreIdle ==
    /\ InitLimiterIdle
    /\ InitMainIdle

InitSrvIdle ==
    /\ InitStoreIdle
    /\ InitCacheIdle
    /\ InitExtractIdle
    /\ InitHandlerIdle
    /\ InitMoreIdle

InitExtIdle ==
    /\ InitNeedsIdle
    /\ InitMatchIdle
    /\ InitSearchIdle
    /\ InitSrvIdle

InitChunkIdle ==
    /\ sections = <<>>
    /\ sec = 0
    /\ current_chunk = <<>>
    /\ current_size = 0
    /\ win_text = <<>>
    /\ win_start = 0
    /\ win_size = 0
    /\ win_kind = "none"
    /\ windows = <<>>

\* a direct call of one of the three chunkers
InitChunk ==
    /\ entry \in {"chunk_text_semantic", "chunk_text_fixed_size", "chunk_text_page_based"}
    /\ pc = entry
    /\ ret = "chunk_done"
    /\ text \in ChunkTexts
    /\ page_count = 0
    /\ needs_chunk = TRUE
    /\ max_chunk_size \in 1..MaxChunkArg
    /\ overlap_chars \in 0..MaxOverlapArg
    /\ overlap_chars < max_chunk_size
    /\ max_retries = DEFAULT_MAX_RETRIES
    /\ chunks = <<>>
    /\ InitChunkIdle
    /\ InitSummIdle
    /\ InitExtIdle

NextChunk ==
    \/ SemStart
    \/ SemSection
    \/ SemFinish
    \/ FixedStart
    \/ FixedStep
    \/ FixedReturn
    \/ PageStart
    \/ PageStep
    \/ PageReturn

SpecChunk == InitChunk /\ [][NextChunk]_vars

\* ------------------------------------------------------------- process_pdf
\* a mutant: the limits are inclusive
needs_chunking_Inclusive(char_count, pages) ==
    LET token_estimate == char_count \div CHARS_PER_TOKEN
    IN  IF pages >= PAGE_LIMIT THEN [needs |-> TRUE, reason |-> "pages"]
        ELSE IF char_count >= CHAR_LIMIT THEN [needs |-> TRUE, reason |-> "characters"]
        ELSE IF token_estimate >= TOKEN_LIMIT THEN [needs |-> TRUE, reason |-> "tokens"]
        ELSE [needs |-> FALSE, reason |-> "within"]

\* needs_chunking on the character count of the text and the page count
needs_chunking(char_count, pages) ==
    LET token_estimate == char_count \div CHARS_PER_TOKEN
    IN  IF pages > PAGE_LIMIT THEN [needs |-> TRUE, reason |-> "pages"]
        ELSE IF char_count > CHAR_LIMIT THEN [needs |-> TRUE, reason |-> "characters"]
        ELSE IF token_estimate > TOKEN_LIMIT THEN [needs |-> TRUE, reason |-> "tokens"]
        ELSE [needs |-> FALSE, reason |-> "within"]

\* summarize_pdf_with_gemini calls process_pdf: the chunking decision; a text that
\* needs chunking goes to chunk_text_semantic with process_pdf's sizes
ProcessPdf ==
    /\ pc = "summarize_pdf_with_gemini"
    /\ needs_chunk' = needs_chunking(Len(text), page_count).needs
    /\ IF needs_chunk'
       THEN /\ max_chunk_size' = DEFAULT_MAX_CHUNK_SIZE
            /\ overlap_chars' = Max(MIN_OVERLAP, DEFAULT_MAX_CHUNK_SIZE \div OVERLAP_DIVISOR)
            /\ pc' = "chunk_text_semantic"
            /\ chunks' = chunks
       ELSE /\ chunks' = <<text>>
            /\ pc' = "dispatch"
            /\ UNCHANGED <<max_chunk_size, overlap_chars>>
    /\ UNCHANGED <<entry, ret, text, page_count, varsSem, varsWindow, varsSumm, varsExt>>

\* summarize_pdf_with_gemini after process_pdf: the choice of the path
Dispatch ==
    /\ pc = "dispatch"
    /\ pc' = IF needs_chunk THEN "summarize_chunked_pdf" ELSE "summarize_text_with_gemini"
    /\ UNCHANGED <<varsDoc, varsChunk, varsSumm>>

\* ---------------------------------------------------- call_gemini_with_retry
NoHint == 0 - 1
\* largest server-suggested retry time carried by an error text
MaxHint == 1
\* what an error text holds of the substrings the code looks for, and the number
\* of 'Please retry in <d>s' (NoHint when absent)
ErrorTokens == {{}, {"429"}, {"RESOURCE_EXHAUSTED"}, {"quota"}, {"Quota"}}
\* the retry time comes with the service's 429 text
ErrorMsgs == [tokens : ErrorTokens, hint : {NoHint}]
                 \cup [tokens : {{"429"}}, hint : 0..MaxHint]

\* str.lower() of the substrings of an error text
LowerToken(t) ==
    IF t = "Quota" THEN "quota"
    ELSE IF t = "RESOURCE_EXHAUSTED" THEN "resource_exhausted"
    ELSE t

\* a mutant: every error is taken for a rate-limit error
is_rate_limit_Any(e) == TRUE

\* '429' in error_str or 'RESOURCE_EXHAUSTED' in error_str or 'quota' in error_str.lower()
is_rate_limit(e) ==
    \/ "429" \in e.tokens
    \/ "RESOURCE_EXHAUSTED" \in e.tokens
    \/ "quota" \in {LowerToken(t) : t \in e.tokens}

\* extract_retry_delay_from_error
extract_retry_delay_from_error(e) == e.hint

RECURSIVE Pow2(_)
Pow2(n) == IF n <= 0 THEN 1 ELSE 2 * Pow2(n - 1)

\* the delay before the retry that follows a rate-limit failure of this attempt;
\* a suggested delay of 0 is falsy and falls to the backoff
RetryDelay(e, att) ==
    LET retry_delay == extract_retry_delay_from_error(e)
    IN  IF retry_delay # NoHint /\ retry_delay # 0
        THEN retry_delay + RETRY_BUFFER
        ELSE BASE_DELAY * Pow2(att)

\* a mutant: the handler retries once more than the loop allows
ShouldRetry_OffByOne(e, att, retries) == is_rate_limit(e) /\ att <= retries

\* the handler retries: a rate-limit error with attempts left
ShouldRetry(e, att, retries) == is_rate_limit(e) /\ att < retries

\* the range of the attempt loop
InRange(att, retries) == att < retries + 1

varsClock == <<now, last_request_time, gated>>
varsPass == <<idx, chunk_summaries, succeeded, outcome>>

\* a call of call_gemini_with_retry from a call site
BeginCall(site, retries, request) ==
    /\ caller' = site
    /\ max_retries' = retries
    /\ attempt' = 0
    /\ attempts' = 0
    /\ call_result' = "none"
    /\ last_error' = <<>>
    /\ slept' = FALSE
    /\ requests' = Append(requests, request)
    /\ pc' = "call_loop"

\* the call has returned to a caller that goes on: its locals are gone
EndCall ==
    /\ caller' = "none"
    /\ attempt' = 0
    /\ attempts' = 0
    /\ call_result' = "none"
    /\ last_error' = <<>>
    /\ slept' = FALSE

\* the head of the for loop; its exception variable is unbound again
CallLoop ==
    /\ pc = "call_loop"
    /\ IF InRange(attempt, max_retries)
       THEN /\ pc' = "enforce"
            /\ call_result' = call_result
       ELSE /\ pc' = "ret"
            /\ call_result' = "no_response"
    /\ last_error' = <<>>
    /\ slept' = FALSE
    /\ UNCHANGED <<varsDoc, varsChunk, varsClock, varsPass, caller, max_retries, attempt,
                   requests, attempts>>

\* a mutant: the limiter does not sleep
ReleaseTime_NoSleep(current_time, last) == current_time

\* the time at which enforce_rate_limit returns: it sleeps the rest of the interval
ReleaseTime(current_time, last) ==
    LET time_since_last == current_time - last
    IN  IF time_since_last < MIN_REQUEST_INTERVAL
        THEN current_time + (MIN_REQUEST_INTERVAL - time_since_last)
        ELSE current_time

enforce_rate_limit ==
    /\ pc = "enforce"
    /\ now' = ReleaseTime(now, last_request_time)
    /\ last_request_time' = now'
    /\ gated' = TRUE
    /\ pc' = "send"
    /\ UNCHANGED <<varsDoc, varsChunk, varsPass, caller, max_retries, attempt, call_result,
                   requests, attempts, last_error, slept>>

\* generate_content returns a response, after some time
GenerateOk ==
    /\ pc = "send"
    /\ \E dur \in 0..MaxCallTime : now' = now + dur
    /\ attempts' = attempts + 1
    /\ gated' = FALSE
    /\ call_result' = "response"
    /\ pc' = "ret"
    /\ UNCHANGED <<varsDoc, varsChunk, varsPass, caller, max_retries, attempt, requests,
                   last_request_time, last_error, slept>>

\* generate_content raises, and the handler sleeps and continues, or re-raises
GenerateFails ==
    /\ pc = "send"
    /\ \E dur \in 0..MaxCallTime : \E e \in ErrorMsgs :
        /\ last_error' = <<e>>
        /\ IF ShouldRetry(e, attempt, max_retries)
           THEN /\ now' = now + dur + RetryDelay(e, attempt)
                /\ slept' = TRUE
                /\ attempt' = attempt + 1
                /\ call_result' = call_result
                /\ pc' = "call_loop"
           ELSE /\ now' = now + dur
                /\ slept' = FALSE
                /\ attempt' = attempt
                /\ call_result' = "raised"
                /\ pc' = "ret"
    /\ attempts' = attempts + 1
    /\ gated' = FALSE
    /\ UNCHANGED <<varsDoc, varsChunk, varsPass, caller, max_retries, requests,
                   last_request_time>>

\* ------------------------------------------------------------ the summaries
\* the text of the response to the request for chunk k
Summary(k) == k

\* the labelled summaries joined for Pass 2
CombinedSummaries(summaries) == [i \in 1..Len(summaries) |-> <<i, summaries[i]>>]

Request(kind, k, parts) == [kind |-> kind, chunk |-> k, parts |-> parts]

\* summarize_text_with_gemini: the single request
SingleStart ==
    /\ pc = "summarize_text_with_gemini"
    /\ BeginCall("single", DEFAULT_MAX_RETRIES, Request("single", 0, <<>>))
    /\ UNCHANGED <<varsDoc, varsChunk, varsClock, varsPass>>

\* summarize_chunked_pdf up to its Pass 1 loop
ChunkedStart ==
    /\ pc = "summarize_chunked_pdf"
    /\ chunk_summaries' = <<>>
    /\ idx' = 1
    /\ pc' = "pass1"
    /\ UNCHANGED <<varsDoc, varsChunk, varsClock, succeeded, outcome, caller, max_retries,
                   attempt, call_result, requests, attempts, last_error, slept>>

\* Pass 1: the request for the next chunk
Pass1Next ==
    /\ pc = "pass1"
    /\ idx <= Len(chunks)
    /\ BeginCall("chunk", DEFAULT_MAX_RETRIES, Request("chunk", idx, <<>>))
    /\ UNCHANGED <<varsDoc, varsChunk, varsClock, varsPass>>

\* a mutant: the summary slot of a chunk is filled whether or not its call raised
SummariesAfter_KeepFailed(summaries, k, result) == Append(summaries, Summary(k))

\* chunk_summaries after the call for chunk k: appended to on a response, left
\* alone when the call raised (the except clause continues)
SummariesAfter(summaries, k, result) ==
    IF result = "response" THEN Append(summaries, Summary(k)) ELSE summaries

\* Pass 1: the call for a chunk returned or raised
AfterChunkCall ==
    /\ pc = "ret"
    /\ caller = "chunk"
    /\ chunk_summaries' = SummariesAfter(chunk_summaries, idx, call_result)
    /\ succeeded' = IF call_result = "response" THEN succeeded \cup {idx} ELSE succeeded
    /\ idx' = idx + 1
    /\ pc' = "pass1"
    /\ EndCall
    /\ UNCHANGED <<varsDoc, varsChunk, varsClock, outcome, max_retries, requests>>

\* a mutant: Pass 2 is entered whatever Pass 1 left
NoSummaries_Never(summaries) == FALSE

\* if not chunk_summaries
NoSummaries(summaries) == summaries = <<>>

\* after Pass 1: no summary is a failure, else the Pass 2 request
Pass1Done ==
    /\ pc = "pass1"
    /\ idx > Len(chunks)
    /\ IF NoSummaries(chunk_summaries)
       THEN /\ outcome' = "raised"
            /\ pc' = "done"
            /\ UNCHANGED <<caller, max_retries, attempt, call_result, requests, attempts,
                           last_error, slept>>
       ELSE /\ BeginCall("combine", DEFAULT_MAX_RETRIES,
                         Request("combine", 0, CombinedSummaries(chunk_summaries)))
            /\ outcome' = outcome
    /\ UNCHANGED <<varsDoc, varsChunk, varsClock, idx, chunk_summaries, succeeded>>

\* the single, combine or direct call returned or raised: so does the function
AfterFinalCall ==
    /\ pc = "ret"
    /\ caller \in {"single", "combine", "direct"}
    /\ outcome' = IF call_result = "response" THEN "returned"
                  ELSE IF call_result = "no_response"
                       THEN (IF caller = "direct" THEN "returned_none" ELSE "raised")
                       ELSE "raised"
    /\ pc' = "done"
    /\ UNCHANGED <<varsDoc, varsChunk, varsClock, idx, chunk_summaries, succeeded, caller,
                   max_retries, attempt, call_result, requests, attempts, last_error,
                   slept>>

\* call_gemini_with_retry called directly
DirectStart ==
    /\ pc = "call_gemini_with_retry"
    /\ BeginCall("direct", max_retries, Request("direct", 0, <<>>))
    /\ UNCHANGED <<varsDoc, varsChunk, varsClock, varsPass>>

\* ------------------------------------------------------------------- Init
\* largest number of lines of a document given to summarize_pdf_with_gemini
MaxDocLines == 2
DocLines == { <<>>, <<"a","b">>, <<"A","A","A">> }
\* clean_text returns a trimmed text
DocTexts == {t \in TextsOf(DocLines, MaxDocLines) : Strip(t) = t}
PageCounts == {0, PAGE_LIMIT, PAGE_LIMIT + 1}

\* the chunk list of a ProcessedPDF of n chunks
ChunkList(n) == [k \in 1..n |-> <<LowerSeq[k]>>]

Init ==
    /\ entry \in {"summarize_pdf_with_gemini", "summarize_chunked_pdf",
                  "call_gemini_with_retry"}
    /\ pc = entry
    /\ ret = "dispatch"
    /\ InitChunkIdle
    /\ InitSummIdle
    /\ InitExtIdle
    /\ max_chunk_size = 0
    /\ overlap_chars = 0
    /\ IF entry = "summarize_pdf_with_gemini"
       THEN /\ text \in DocTexts
            /\ page_count \in PageCounts
            /\ needs_chunk = FALSE
            /\ chunks = <<>>
            /\ max_retries = DEFAULT_MAX_RETRIES
       ELSE IF entry = "summarize_chunked_pdf"
       THEN /\ text = <<>>
            /\ page_count = 0
            /\ needs_chunk = TRUE
            /\ chunks \in {ChunkList(n) : n \in 0..MaxChunks}
            /\ max_retries = DEFAULT_MAX_RETRIES
       ELSE /\ text = <<>>
            /\ page_count = 0
            /\ needs_chunk = FALSE
            /\ chunks = <<>>
            /\ max_retries \in (0 - 1)..MaxRetriesArg

Next ==
    \/ ProcessPdf
    \/ SemStart
    \/ SemSection
    \/ SemFinish
    \/ Dispatch
    \/ SingleStart
    \/ ChunkedStart
    \/ Pass1Next
    \/ AfterChunkCall
    \/ Pass1Done
    \/ AfterFinalCall
    \/ DirectStart
    \/ CallLoop
    \/ enforce_rate_limit
    \/ GenerateOk
    \/ GenerateFails

Spec == Init /\ [][Next]_vars

\* ======================================================= claims, under Spec
\* the elements of a set of numbers in increasing order
RECURSIVE Increasing(_)
Increasing(S) ==
    IF S = {} THEN <<>> ELSE <<SetMin(S)>> \o Increasing(S \ {SetMin(S)})

RequestsOf(kind) == SelectSeq(requests, LAMBDA r : r.kind = kind)
InChunkedRun == entry \in {"summarize_pdf_with_gemini", "summarize_chunked_pdf"} /\ needs_chunk
PassOneOver == pc = "done" \/ (pc = "pass1" /\ idx > Len(chunks)) \/ caller = "combine"

\* C1: Pass 1 submits the chunks one at a time in document order; a chunk whose
\* call raises is skipped and every later chunk is still submitted; the Pass 2
\* input is built from exactly the summaries of the chunks whose calls returned,
\* in their original order.
C1_FailedChunksSkipped ==
    LET chunk_requests == RequestsOf("chunk")
        survivors == Increasing(succeeded)
    IN  /\ \A j \in 1..Len(chunk_requests) : chunk_requests[j].chunk = j
        /\ Len(chunk_requests) <= Len(chunks)
        /\ (InChunkedRun /\ PassOneOver) => Len(chunk_requests) = Len(chunks)
        /\ chunk_summaries = [j \in 1..Len(survivors) |-> Summary(survivors[j])]
        /\ \A r \in 1..Len(requests) :
              requests[r].kind = "combine" =>
                 /\ Len(chunk_requests) = Len(chunks)
                 /\ requests[r].parts =
                       [j \in 1..Len(survivors) |-> <<j, Summary(survivors[j])>>]

\* C1 witness: three chunks, the call for chunk 2 raised, Pass 2 was given the
\* summaries of chunks 1 and 3
C1_Witness ==
    /\ pc = "done"
    /\ Len(chunks) = 3
    /\ succeeded = {1, 3}
    /\ Len(requests) = 4
    /\ requests[4].kind = "combine"
    /\ requests[4].parts = <<<<1, Summary(1)>>, <<2, Summary(3)>>>>

\* C2: when every Pass 1 call raises the function raises and no Pass 2 request
\* is issued; when a summary survives exactly one Pass 2 request is issued, after
\* all the Pass 1 requests.
C2_CombineIffSurvivor ==
    LET combines == {r \in 1..Len(requests) : requests[r].kind = "combine"}
    IN  /\ Cardinality(combines) <= 1
        /\ \A r \in combines :
              /\ succeeded # {}
              /\ r = Len(requests)
              /\ r = Len(chunks) + 1
              /\ \A q \in 1..(r - 1) : requests[q].kind = "chunk"
        /\ (InChunkedRun /\ pc = "done" /\ succeeded = {}) =>
              (outcome = "raised" /\ combines = {})
        /\ (InChunkedRun /\ pc = "done" /\ succeeded # {}) => Cardinality(combines) = 1

\* C2 witness: three chunks, all three calls raised, the function raised
C2_Witness ==
    /\ pc = "done"
    /\ Len(chunks) = 3
    /\ Len(RequestsOf("chunk")) = 3
    /\ succeeded = {}
    /\ outcome = "raised"

\* C3: a processed document of exactly one chunk takes the single-chunk path:
\* one single-document request and no chunk or combine request, whatever its
\* text length and page count.
C3_OneChunkSinglePath ==
    (entry = "summarize_pdf_with_gemini" /\ Len(chunks) = 1
        /\ pc \notin {"summarize_pdf_with_gemini", "chunk_text_semantic", "sem_loop"})
    => /\ RequestsOf("chunk") = <<>>
       /\ RequestsOf("combine") = <<>>
       /\ pc = "done" => Len(RequestsOf("single")) = 1

\* C4: a call makes at most max_retries + 1 outbound attempts (6 by default); a
\* rate-limit failure is retried while attempts remain and raised after the last
\* one; every call ends with a response or an error, and for max_retries >= 0
\* never without a response.
C4_BoundedRetries ==
    /\ attempts <= Max(max_retries + 1, 0)
    /\ max_retries = DEFAULT_MAX_RETRIES => attempts <= 6
    /\ (pc = "call_loop" /\ last_error # <<>>) =>
          (is_rate_limit(last_error[1]) /\ attempt <= max_retries /\ attempts = attempt)
    /\ (pc = "ret" /\ call_result = "raised" /\ is_rate_limit(last_error[1])) =>
          attempts = max_retries + 1
    /\ pc = "ret" => call_result \in {"response", "raised", "no_response"}
    /\ call_result = "no_response" => max_retries < 0
    /\ pc \in {"call_loop", "enforce", "send", "ret"} => ENABLED Next

\* C4 witness: the sixth attempt of a default call failed with a rate-limit
\* error, which was raised
C4_Witness ==
    /\ pc = "ret"
    /\ max_retries = DEFAULT_MAX_RETRIES
    /\ attempts = 6
    /\ call_result = "raised"
    /\ last_error # <<>>
    /\ is_rate_limit(last_error[1])

\* the error text holds none of '429', 'RESOURCE_EXHAUSTED', 'quota' as written
HoldsNoneAsWritten(e) == e.tokens \cap {"429", "RESOURCE_EXHAUSTED", "quota"} = {}
\* the error text holds none of them, 'quota' in any letter case
HoldsNoneAnyCase(e) == e.tokens \cap {"429", "RESOURCE_EXHAUSTED", "quota", "Quota"} = {}

\* C5 as stated: an attempt that fails with an error whose text holds none of
\* '429', 'RESOURCE_EXHAUSTED', 'quota' is re-raised at once, with no sleep and no
\* further attempt.
C5_AsStated ==
    (last_error # <<>> /\ HoldsNoneAsWritten(last_error[1])) =>
        (pc = "ret" /\ call_result = "raised" /\ ~slept)

\* C5 amended: an attempt that fails with an error whose text holds none of '429',
\* 'RESOURCE_EXHAUSTED' and, in any letter case, 'quota' is re-raised at once, with
\* no sleep and no further attempt, however many retries preceded it.
C5_NonRateLimitRaisedAtOnce ==
    (last_error # <<>> /\ HoldsNoneAnyCase(last_error[1])) =>
        (pc \in {"ret", "done"} /\ call_result = "raised" /\ ~slept
            /\ attempts = attempt + 1)

\* C5 witness: after two rate-limit retries the third attempt failed with another
\* error, which was raised
C5_Witness ==
    /\ pc = "ret"
    /\ attempt = 2
    /\ attempts = 3
    /\ call_result = "raised"
    /\ last_error # <<>>
    /\ HoldsNoneAnyCase(last_error[1])
    /\ ~slept

\* C6: every outbound attempt is preceded by enforce_rate_limit, the limiter
\* releases two successive attempts at least MIN_REQUEST_INTERVAL apart, and
\* the shared timestamp never decreases.
C6_RateLimited ==
    [][ /\ (pc = "send" /\ attempts' = attempts + 1) => gated
        /\ attempts' # attempts => (pc = "send" \/ attempts' = 0)
        /\ last_request_time' >= last_request_time
        /\ last_request_time' # last_request_time =>
              /\ pc = "enforce"
              /\ last_request_time' >= last_request_time + MIN_REQUEST_INTERVAL
              /\ last_request_time' = now' ]_vars

\* C6 witness: the limiter has released a retry of the Pass 2 call of a run of
\* three chunks
C6_Witness ==
    /\ pc = "send"
    /\ gated
    /\ caller = "combine"
    /\ attempt > 0
    /\ Len(chunks) = 3
    /\ last_request_time >= StartTime + 4 * MIN_REQUEST_INTERVAL

\* ================================================== claims, under SpecChunk
ChunkerReturned == pc = "chunk_done"

\* C7: every chunker terminates.  The loop of chunk_text_fixed_size and of
\* chunk_text_page_based is deterministic in its text and its start, so it ends
\* only if no window starts where the one before it started: each window moves
\* the start.
C7_WindowsAdvance ==
    [][ (pc = "window_loop" /\ pc' = "window_loop" /\ Len(windows') > Len(windows))
            => win_start' # win_start ]_vars

\* C8: of the chunks chunk_text_semantic and chunk_text_fixed_size return, all
\* but at most one trailing remainder are no longer than max_chunk_size, a chunk
\* made of the carried overlap and the next section included.
C8_ChunkSizeBound ==
    (ChunkerReturned /\ entry \in {"chunk_text_semantic", "chunk_text_fixed_size"})
    => \A i \in 1..(Len(chunks) - 1) : Len(chunks[i]) <= max_chunk_size

\* chunk[0] followed by chunk[i][overlap_chars:] for i > 0
RECURSIVE Reconstruct(_, _)
Reconstruct(cs, n) ==
    IF Len(cs) = 0 THEN <<>>
    ELSE IF Len(cs) = 1 THEN cs[1]
    ELSE Reconstruct(SubSeq(cs, 1, Len(cs) - 1), n) \o PySlice(cs[Len(cs)], n, Len(cs[Len(cs)]))

\* C9: for every strategy, chunk[0] followed by each later chunk without its
\* first overlap_chars characters is the trimmed text.
C9_ChunksReconstructText ==
    ChunkerReturned => Reconstruct(chunks, overlap_chars) = Strip(text)

\* the two sections of the end-to-end example, at any scale: together above
\* max_chunk_size, the second filling a chunk with the overlap exactly
\* (200,000 / 450,000 / 500,000 / 50,000 is 4 / 9 / 10 / 1 in the model)
ExampleShape ==
    /\ entry = "chunk_text_semantic"
    /\ Len(sections) = 2
    /\ overlap_chars > 0
    /\ LET s1 == PySlice(text, sections[1].char_start, sections[1].char_end)
           s2 == PySlice(text, sections[2].char_start, sections[2].char_end)
       IN  /\ Len(s1) * 9 = Len(s2) * 4
           /\ Len(s2) + overlap_chars = max_chunk_size
           /\ Len(s1) > overlap_chars

\* C10: in the end-to-end example chunk_text_semantic returns two chunks, section
\* 1 and then the trailing overlap_chars characters of chunk 1 followed by
\* section 2, max_chunk_size characters in all.
C10_EndToEndExample ==
    (ChunkerReturned /\ ExampleShape) =>
        LET s1 == PySlice(text, sections[1].char_start, sections[1].char_end)
            s2 == PySlice(text, sections[2].char_start, sections[2].char_end)
        IN  /\ Len(chunks) = 2
            /\ chunks[1] = Strip(s1)
            /\ chunks[2] = Strip(LastChars(chunks[1], overlap_chars) \o s2)
            /\ Len(chunks[2]) = max_chunk_size

\* C11: for every strategy every element of the returned list is a trimmed,
\* non-empty string, also when a section or a window holds only whitespace.
C11_ChunksTrimmedNonEmpty ==
    ChunkerReturned =>
        \A i \in 1..Len(chunks) : chunks[i] # <<>> /\ Strip(chunks[i]) = chunks[i]

\* =========================================================== needs_chunking
\* text lengths this far on either side of the character limit
NeedsMargin == 12
\* page counts this far on either side of the page limit
PageMargin == 2
NeedsLengths == {0} \cup ((CHAR_LIMIT - NeedsMargin)..(CHAR_LIMIT + NeedsMargin))
NeedsPages == {0} \cup ((PAGE_LIMIT - PageMargin)..(PAGE_LIMIT + PageMargin))

\* everything of the summarizer and the chunkers a direct call leaves alone
varsPdfIdle == <<ret, text, chunks, max_chunk_size, overlap_chars, varsSem, varsWindow,
                 varsSumm>>
InitPdfIdle ==
    /\ ret = "done"
    /\ text = <<>>
    /\ chunks = <<>>
    /\ max_chunk_size = 0
    /\ overlap_chars = 0
    /\ max_retries = DEFAULT_MAX_RETRIES
    /\ InitChunkIdle
    /\ InitSummIdle

\* a direct call of needs_chunking on a text of text_length characters
InitNeeds ==
    /\ entry = "needs_chunking"
    /\ pc = entry
    /\ text_length \in NeedsLengths
    /\ page_count \in NeedsPages
    /\ needs_chunk = FALSE
    /\ reason = "none"
    /\ InitPdfIdle
    /\ InitMatchIdle
    /\ InitSearchIdle
    /\ InitSrvIdle

NeedsChunkingCall ==
    /\ pc = "needs_chunking"
    /\ needs_chunk' = needs_chunking(text_length, page_count).needs
    /\ reason' = needs_chunking(text_length, page_count).reason
    /\ pc' = "done"
    /\ UNCHANGED <<entry, page_count, text_length, varsPdfIdle, varsMatch, varsSearch,
                   varsSrv>>

NextNeeds == NeedsChunkingCall

SpecNeeds == InitNeeds /\ [][NextNeeds]_vars

\* C12: needs_chunking returns true iff page_count > 50, or len(text) > 500000,
\* or len(text) // 4 > 125000, and its reason names the first of these that holds
\* in that order; the limits are strict: 500,000 characters with at most 50 pages
\* are not chunked and 500,001 are, 50 pages alone are not chunked and 51 are.
C12_NeedsChunkingThresholds ==
    (entry = "needs_chunking" /\ pc = "done") =>
        /\ needs_chunk <=> (page_count > 50 \/ text_length > 500000
                               \/ text_length \div 4 > 125000)
        /\ reason = (IF page_count > 50 THEN "pages"
                     ELSE IF text_length > 500000 THEN "characters"
                     ELSE IF text_length \div 4 > 125000 THEN "tokens"
                     ELSE "within")
        /\ (page_count <= 50 /\ text_length = 500000) => ~needs_chunk
        /\ (page_count <= 50 /\ text_length = 500001) => needs_chunk
        /\ (page_count = 50 /\ text_length <= 500000) => ~needs_chunk
        /\ page_count = 51 => needs_chunk

\* C12 witness: 50 pages and 500,001 characters are chunked for the characters
C12_Witness ==
    /\ entry = "needs_chunking"
    /\ pc = "done"
    /\ page_count = 50
    /\ text_length = 500001
    /\ needs_chunk
    /\ reason = "characters"

\* ==================================================== normalize_company_name
\* str.upper() of one character
UpperChar(c) ==
    IF c \in LowerChars
    THEN UpperSeq[CHOOSE i \in 1..Len(LowerSeq) : LowerSeq[i] = c]
    ELSE c
StrUpper(s) == [i \in 1..Len(s) |-> UpperChar(s[i])]

\* s.replace(old, new): the occurrences of old from the left, not overlapping
RECURSIVE Replace(_, _, _)
Replace(s, old, new) ==
    LET hits == {p \in 1..(Len(s) - Len(old) + 1) : SubSeq(s, p, p + Len(old) - 1) = old}
    IN  IF hits = {} THEN s
        ELSE LET first == SetMin(hits)
             IN  SubSeq(s, 1, first - 1) \o new
                     \o Replace(SubSeq(s, first + Len(old), Len(s)), old, new)

\* s.split(): the runs of non-whitespace
RECURSIVE SplitWords(_)
SplitWords(s) ==
    LET t == Strip(s)
        gaps == {i \in 1..Len(t) : IsSpace(t[i])}
    IN  IF t = <<>> THEN <<>>
        ELSE IF gaps = {} THEN <<t>>
        ELSE <<SubSeq(t, 1, SetMin(gaps) - 1)>>
                 \o SplitWords(SubSeq(t, SetMin(gaps) + 1, Len(t)))

\* ' '.join(words)
RECURSIVE JoinWords(_)
JoinWords(ws) ==
    IF Len(ws) = 0 THEN <<>>
    ELSE IF Len(ws) = 1 THEN ws[1]
    ELSE ws[1] \o <<SP>> \o JoinWords(Tail(ws))

\* the replacements dictionary, in its insertion order
replacements ==
    << <<<<"L","I","M","I","T","E","D">>, <<"L","T","D">>>>,
       <<<<"I","N","C","O","R","P","O","R","A","T","E","D">>, <<"I","N","C">>>>,
       <<<<"C","O","R","P","O","R","A","T","I","O","N">>, <<"C","O","R","P">>>>,
       <<<<"P","R","I","V","A","T","E"," ","L","I","M","I","T","E","D">>, <<"P","V","T"," ","L","T","D">>>>,
       <<<<"P","V","T","."," ","L","T","D",".">>, <<"P","V","T"," ","L","T","D">>>>,
       <<<<"P","R","I","V","A","T","E"," ","L","T","D",".">>, <<"P","V","T"," ","L","T","D">>>>,
       <<<<"P","R","I","V","A","T","E"," ","L","T","D">>, <<"P","V","T"," ","L","T","D">>>>,
       <<<<"L","T","D",".">>, <<"L","T","D">>>>,
       <<<<"I","N","C",".">>, <<"I","N","C">>>>,
       <<<<"C","O","R","P",".">>, <<"C","O","R","P">>>>,
       <<<<"&">>, <<"A","N","D">>>>,
       <<<<" ","+"," ">>, <<" ","A","N","D"," ">>>>,
       <<<<" "," ">>, <<" ">>>> >>

\* for old, new in replacements.items(): name = name.replace(old, new)
RECURSIVE ApplyReplacements(_, _)
ApplyReplacements(s, k) ==
    IF k > Len(replacements) THEN s
    ELSE ApplyReplacements(Replace(s, replacements[k][1], replacements[k][2]), k + 1)

\* re.sub(r'[.,;:()\[\]{}]', '', name)
PUNCTUATION == {".", ",", ";", ":", "(", ")", "[", "]", "{", "}"}
RemovePunctuation(s) == SelectSeq(s, LAMBDA c : c \notin PUNCTUATION)

normalize_company_name(raw) ==
    IF raw = <<>> THEN <<>>
    ELSE JoinWords(SplitWords(RemovePunctuation(
             ApplyReplacements(StrUpper(Strip(raw)), 1))))

\* largest number of pieces of a generated company name
MaxNamePieces == 3
\* pieces of company names: words, a legal suffix whole and in two halves,
\* punctuation, a blank, the signs the replacements look for
NamePieces == { <<"A","b">>, <<"L","I","M","I","T","E","D">>, <<"L","I","M","I">>, <<"T","E","D">>, <<".">>, <<" ">>, <<"&">>, <<"+">> }
RECURSIVE Concat(_)
Concat(ps) == IF Len(ps) = 0 THEN <<>> ELSE Head(ps) \o Concat(Tail(ps))
NamesOf(pieces, n) == {Concat(ps) : ps \in UNION {[1..k -> pieces] : k \in 0..n}}

varsMatchIdle == <<page_count, needs_chunk, varsPdfIdle, varsNeeds, varsSearch, varsSrv>>
InitMatchOnly ==
    /\ page_count = 0
    /\ needs_chunk = FALSE
    /\ InitPdfIdle
    /\ InitNeedsIdle
    /\ InitSearchIdle
    /\ InitSrvIdle

\* normalize_company_name called on a name, and again on what it returned
InitNormalize ==
    /\ entry = "normalize_company_name"
    /\ pc = entry
    /\ name \in NamesOf(NamePieces, MaxNamePieces)
    /\ normalized = <<>>
    /\ search_name = <<>>
    /\ blob = <<>>
    /\ row_match = "none"
    /\ InitMatchOnly

NormalizeCall ==
    /\ pc = "normalize_company_name"
    /\ normalized' = Append(normalized, normalize_company_name(name))
    /\ pc' = "normalize_again"
    /\ UNCHANGED <<entry, name, search_name, blob, row_match, varsMatchIdle>>

NormalizeAgain ==
    /\ pc = "normalize_again"
    /\ normalized' = Append(normalized, normalize_company_name(normalized[1]))
    /\ pc' = "done"
    /\ UNCHANGED <<entry, name, search_name, blob, row_match, varsMatchIdle>>

NextNormalize ==
    \/ NormalizeCall
    \/ NormalizeAgain

SpecNormalize == InitNormalize /\ [][NextNormalize]_vars

\* C13: normalize_company_name is idempotent: applied to its own result it
\* returns that result, also where punctuation sits inside or between words that
\* become a legal suffix once it is stripped.
C13_NormalizeIdempotent ==
    (entry = "normalize_company_name" /\ Len(normalized) = 2) =>
        normalized[2] = normalized[1]

\* ================================================== fuzzy_match_company_name
common_words ==
    { <<"L","T","D">>,
      <<"I","N","C">>,
      <<"C","O","R","P">>,
      <<"P","V","T">>,
      <<"A","N","D">>,
      <<"T","H","E">>,
      <<"O","F">>,
      <<"I","N">>,
      <<"F","O","R">>,
      <<"T","O">>,
      <<"I","N","D","U","S","T","R","I","E","S">>,
      <<"I","N","D","U","S","T","R","Y">>,
      <<"E","N","G","I","N","E","E","R","I","N","G">>,
      <<"A","U","T","O","M","A","T","I","O","N">>,
      <<"S","Y","S","T","E","M","S">>,
      <<"T","E","C","H","N","O","L","O","G","I","E","S">>,
      <<"T","E","C","H","N","O","L","O","G","Y">>,
      <<"S","O","L","U","T","I","O","N","S">>,
      <<"S","E","R","V","I","C","E","S">>,
      <<"G","R","O","U","P">>,
      <<"G","L","O","B","A","L">>,
      <<"I","N","T","E","R","N","A","T","I","O","N","A","L">>,
      <<"C","O","M","P","A","N","Y">>,
      <<"C","O","M","P","A","N","I","E","S">>,
      <<"I","N","D","I","A">>,
      <<"O","V","E","R","S","E","A","S">>,
      <<"F","I","N","A","N","C","E">>,
      <<"F","I","N","A","N","C","I","A","L">>,
      <<"B","A","N","K">>,
      <<"B","A","N","K","I","N","G">> }

\* extract_significant_words: not a common word, and longer than 2 characters
\* or holding a digit
IsSignificant(w) ==
    /\ w \notin common_words
    /\ (Len(w) > 2 \/ \E i \in 1..Len(w) : w[i] \in DigitChars)
extract_significant_words(s) == SelectSeq(SplitWords(s), IsSignificant)

\* word in words
InWords(w, ws) == \E i \in 1..Len(ws) : ws[i] = w

\* \w of a regular expression
IsWordChar(c) == c \in UpperChars \cup LowerChars \cup DigitChars \cup {"_"}

\* \b at the 0-based position p of s: a word character on exactly one side
AtWordBoundary(s, p) ==
    LET before == p > 0 /\ IsWordChar(s[p])
        after == p < Len(s) /\ IsWordChar(s[p + 1])
    IN  before # after

\* re.search(r'\b' + re.escape(w) + r'\b', s, re.IGNORECASE)
SearchWholeWordIgnoreCase(w, s) ==
    \E p \in 0..(Len(s) - Len(w)) :
        /\ StrUpper(SubSeq(s, p + 1, p + Len(w))) = StrUpper(w)
        /\ AtWordBoundary(s, p)
        /\ AtWordBoundary(s, p + Len(w))

\* ------------------------------------------------------------ rapidfuzz.fuzz
\* one row of the table of the longest common subsequence of a prefix of a
\* with the prefixes of b, from the row before it: entry k is for the first
\* k - 1 characters of b, and is the best of leaving c out and of pairing c
\* with an equal character of b
LcsRow(prev, c, b) ==
    SubSeq([k \in 1..(Len(b) + 1) |->
               SetMax({prev[k]} \cup {prev[j] + 1 : j \in {j \in 1..(k - 1) : b[j] = c}})],
           1, Len(b) + 1)

RECURSIVE LcsRows(_, _, _)
LcsRows(a, b, prev) ==
    IF a = <<>> THEN prev[Len(b) + 1]
    ELSE LcsRows(Tail(a), b, LcsRow(prev, Head(a), b))

\* the length of the longest common subsequence
Lcs(a, b) ==
    LET shorter == IF Len(a) <= Len(b) THEN a ELSE b
        longer == IF Len(a) <= Len(b) THEN b ELSE a
    IN  LcsRows(shorter, longer, [k \in 1..(Len(longer) + 1) |-> 0])

\* fuzz.ratio(a, b) >= threshold: the ratio is 100 * 2 * lcs / (len(a) + len(b)),
\* and 100 for two empty strings
RatioAtLeast(a, b, threshold) ==
    IF Len(a) + Len(b) = 0 THEN TRUE
    ELSE 200 * Lcs(a, b) >= threshold * (Len(a) + Len(b))

\* the order of the characters by code point, as far as names hold them
CodeOrder == <<"\n", SP, "&", "(", ")", "+", ",", "-", ".", "/">>
                 \o <<"0","1","2","3","4","5","6","7","8","9">> \o <<":", ";">>
                 \o UpperSeq \o <<"[", "]", "_">> \o LowerSeq \o <<"{", "}">>
CodeOf(c) == CHOOSE i \in 1..Len(CodeOrder) : CodeOrder[i] = c

\* a < b for two strings
RECURSIVE StrLess(_, _)
StrLess(a, b) ==
    IF b = <<>> THEN FALSE
    ELSE IF a = <<>> THEN TRUE
    ELSE IF Head(a) = Head(b) THEN StrLess(Tail(a), Tail(b))
    ELSE CodeOf(Head(a)) < CodeOf(Head(b))

\* sorted(words)
RECURSIVE SortWords(_)
SortWords(ws) ==
    IF Len(ws) <= 1 THEN ws
    ELSE LET least == CHOOSE i \in 1..Len(ws) : \A j \in 1..Len(ws) : ~StrLess(ws[j], ws[i])
         IN  <<ws[least]>> \o SortWords(SubSeq(ws, 1, least - 1) \o SubSeq(ws, least + 1, Len(ws)))

\* fuzz.token_sort_ratio(a, b) >= threshold
TokenSortRatioAtLeast(a, b, threshold) ==
    RatioAtLeast(JoinWords(SortWords(SplitWords(a))), JoinWords(SortWords(SplitWords(b))),
                 threshold)

\* fuzz.partial_ratio(a, b) >= threshold: the best ratio of the shorter string
\* with a window of its length of the longer one, the windows that hang over
\* either end included
PartialRatioAtLeast(a, b, threshold) ==
    LET shorter == IF Len(a) <= Len(b) THEN a ELSE b
        longer == IF Len(a) <= Len(b) THEN b ELSE a
    IN  IF Len(shorter) = 0 THEN Len(longer) = 0
        ELSE \E p \in (1 - Len(shorter))..(Len(longer) - 1) :
                RatioAtLeast(shorter,
                             SubSeq(longer, Max(p, 0) + 1, Min(p + Len(shorter), Len(longer))),
                             threshold)

SINGLE_WORD_RATIO == 98
TOKEN_SORT_RATIO == 90
PARTIAL_RATIO == 95
WORD_SHARE_PERCENT == 90

fuzzy_match_company_name(search, where) ==
    LET normalized_search == normalize_company_name(search)
        normalized_text == normalize_company_name(where)
        search_words == extract_significant_words(normalized_search)
        text_words == extract_significant_words(normalized_text)
        matching_words ==
            Cardinality({i \in 1..Len(search_words) : InWords(search_words[i], text_words)})
    IN  IF search = <<>> \/ where = <<>> THEN FALSE
        ELSE IF normalized_search = <<>> \/ normalized_text = <<>> THEN FALSE
        ELSE IF search_words = <<>> THEN Contains(normalized_text, normalized_search)
        ELSE IF Len(search_words) = 1
        THEN \/ Contains(normalized_text, normalized_search)
             \/ /\ SearchWholeWordIgnoreCase(search_words[1], normalized_text)
                /\ RatioAtLeast(normalized_search, normalized_text, SINGLE_WORD_RATIO)
        ELSE \/ \A i \in 1..Len(search_words) : InWords(search_words[i], text_words)
             \/ /\ matching_words * 100 >= Len(search_words) * WORD_SHARE_PERCENT
                /\ InWords(search_words[1], text_words)
             \/ TokenSortRatioAtLeast(normalized_search, normalized_text, TOKEN_SORT_RATIO)
             \/ PartialRatioAtLeast(normalized_search, normalized_text, PARTIAL_RATIO)

\* largest number of pieces of a company name given to the matcher
MaxSearchPieces == 2
\* pieces of the names: two words, a digit word, the start of a legal suffix, a blank
SearchPieces == { <<"A","b">>, <<"C","d","e">>, <<"3","M">>, <<"L","I","M","I","T">>, <<" ">> }
SearchNames == {n \in NamesOf(SearchPieces, MaxSearchPieces) : n # <<>>}
\* what stands before and after the name in the text
Before == { <<>>, <<"x">>, <<"x"," ">>, <<"(">> }
After == { <<>>, <<"E","D">>, <<" ","y">>, <<".">>, <<" ","L","t","d">> }

\* fuzzy_match_company_name called on a name and a text that holds it verbatim
InitFuzzy ==
    /\ entry = "fuzzy_match_company_name"
    /\ pc = entry
    /\ search_name \in SearchNames
    /\ blob \in {pre \o search_name \o post : pre \in Before, post \in After}
    /\ row_match = "none"
    /\ name = <<>>
    /\ normalized = <<>>
    /\ InitMatchOnly

FuzzyCall ==
    /\ pc = "fuzzy_match_company_name"
    /\ row_match' = IF fuzzy_match_company_name(search_name, blob) THEN "true" ELSE "false"
    /\ pc' = "done"
    /\ UNCHANGED <<entry, name, normalized, search_name, blob, varsMatchIdle>>

NextFuzzy == FuzzyCall

SpecFuzzy == InitFuzzy /\ [][NextFuzzy]_vars

\* C14: for a non-empty name with at least one significant word and a text that
\* holds the name verbatim, whatever stands around it, the matcher returns true.
C14_VerbatimNameMatches ==
    (/\ entry = "fuzzy_match_company_name"
     /\ pc = "done"
     /\ extract_significant_words(normalize_company_name(search_name)) # <<>>
     /\ Contains(blob, search_name))
    => row_match = "true"

\* ================================================ search_stocks_in_dataframe
\* a missing value of a column
NAN == <<"nan">>

\* the columns of a row, in the order of the table
COLUMNS == <<"Source", "Title", "Link">>

\* ' '.join of the values of the named columns of a row
RECURSIVE JoinColumns(_, _)
JoinColumns(row, cols) ==
    IF Len(cols) = 0 THEN <<>>
    ELSE IF Len(cols) = 1 THEN row[cols[1]]
    ELSE row[cols[1]] \o <<SP>> \o JoinColumns(row, Tail(cols))

\* Row_Blob and Row_Blob_Upper of a row
RowBlob(row) == JoinColumns(row, COLUMNS)
RowBlobUpper(row) == StrUpper(RowBlob(row))

\* s.startswith(prefix)
StartsWith(s, prefix) == Len(s) >= Len(prefix) /\ SubSeq(s, 1, Len(prefix)) = prefix

\* the length of the match of https?://\S+|www\.\S+ at the start of s, 0 for none
UrlMatchLength(s) ==
    LET prefixes == { <<"h","t","t","p",":","/","/">>, <<"h","t","t","p","s",":","/","/">>, <<"w","w","w",".">> }
        starts == {Len(q) : q \in {q \in prefixes : StartsWith(s, q)}}
        head == IF starts = {} THEN 0 ELSE SetMax(starts)
        stops == {i \in (head + 1)..Len(s) : IsSpace(s[i])}
        end == IF stops = {} THEN Len(s) ELSE SetMin(stops) - 1
    IN  IF head = 0 \/ end = head THEN 0 ELSE end

\* re.sub(r'https?://\S+|www\.\S+', ' ', blob)
RECURSIVE StripUrls(_)
StripUrls(s) ==
    LET hits == {p \in 1..Len(s) : UrlMatchLength(SubSeq(s, p, Len(s))) > 0}
    IN  IF hits = {} THEN s
        ELSE LET first == SetMin(hits)
                 length == UrlMatchLength(SubSeq(s, first, Len(s)))
             IN  SubSeq(s, 1, first - 1) \o <<SP>>
                     \o StripUrls(SubSeq(s, first + length, Len(s)))

\* SEARCH_EXCEPTIONS: its one symbol and the rule of that symbol
EXCEPTION_SYMBOL == <<"B","S","E">>
EXCEPTION_SOURCE == <<"B","S","E">>
EXCEPTION_EXCLUDE == {"Source", "Link", "Attachment", "XBRL_Link"}
HasException(symbol) == symbol = EXCEPTION_SYMBOL

\* build_filtered_blob of a row of the rule's source: the columns the rule does
\* not exclude, the two blob columns the table holds by then included
FilteredBlob(row) ==
    LET kept == SelectSeq(COLUMNS, LAMBDA c : c \notin EXCEPTION_EXCLUDE)
        values == JoinColumns(row, kept) \o <<SP>> \o RowBlob(row) \o <<SP>> \o RowBlobUpper(row)
    IN  StripUrls(values)

\* some row has the rule's source
HasSourceRows(table) == \E i \in 1..Len(table) : table[i].Source = EXCEPTION_SOURCE

\* the table has the column Row_Blob_<symbol> after the precomputation
HasExceptionColumn(table, outcome_of_empty) ==
    HasSourceRows(table) \/ outcome_of_empty = "nan_column"

\* Row_Blob_<symbol> of a row: the filtered blob on the rows of the rule's
\* source, missing on every other row
ExceptionBlob(row) == IF row.Source = EXCEPTION_SOURCE THEN FilteredBlob(row) ELSE NAN

\* the blob a symbol is searched in
BlobFor(symbol, table, i, outcome_of_empty) ==
    IF HasException(symbol) /\ HasExceptionColumn(table, outcome_of_empty)
    THEN ExceptionBlob(table[i])
    ELSE RowBlob(table[i])

SHORT_SYMBOL_LEN == 3

\* re.search(r'\b' + re.escape(w) + r'\b', s)
SearchWholeWord(w, s) ==
    \E p \in 0..(Len(s) - Len(w)) :
        /\ SubSeq(s, p + 1, p + Len(w)) = w
        /\ AtWordBoundary(s, p)
        /\ AtWordBoundary(s, p + Len(w))

\* a mutant: short symbols are searched as substrings too
SymbolMatches_Substring(symbol, upper_blob) ==
    upper_blob # NAN /\ Contains(upper_blob, symbol)

\* symbol_mask of one row: str.contains with na=False
SymbolMatches(symbol, upper_blob) ==
    IF upper_blob = NAN THEN FALSE
    ELSE IF Len(symbol) <= SHORT_SYMBOL_LEN THEN SearchWholeWord(symbol, upper_blob)
    ELSE Contains(upper_blob, symbol)

\* symbol_to_company_map of the model: two symbols have a company name
symbol_to_company_map ==
    [s \in {<<"L","T">>, <<"B","S","E">>} |->
        IF s = <<"L","T">> THEN <<"L","a","r","s","e","n"," ","T","o","u","b","r","o"," ","L","i","m","i","t","e","d">> ELSE <<"B","S","E"," ","L","i","m","i","t","e","d">>]

\* the rows the tables of the model are made of
RowChoices ==
    { [Source |-> <<"N","S","E">>, Title |-> <<"L","T"," ","L","i","m","i","t","e","d"," ","r","e","p","o","r","t","e","d">>,
       Link |-> <<"u","/","1">>],
      [Source |-> <<"N","S","E">>, Title |-> <<"K","E","L","L","T","O","N"," ","r","e","p","o","r","t","e","d">>,
       Link |-> <<"u","/","2">>],
      [Source |-> <<"N","S","E">>, Title |-> <<"L","a","r","s","e","n"," ","T","o","u","b","r","o"," ","L","t","d"," ","o","r","d","e","r">>,
       Link |-> <<"u","/","3">>],
      [Source |-> <<"B","S","E">>, Title |-> <<"B","S","E"," ","L","t","d"," ","r","e","s","u","l","t","s">>,
       Link |-> <<"h","t","t","p",":","/","/","b","/","4">>],
      [Source |-> <<"B","S","E">>, Title |-> <<"L","T"," ","L","i","m","i","t","e","d"," ","r","e","p","o","r","t","e","d">>,
       Link |-> <<"h","t","t","p",":","/","/","b","/","5">>],
      [Source |-> <<"N","S","E">>, Title |-> <<"B","S","E"," ","i","n","d","e","x"," ","u","p">>,
       Link |-> <<"u","/","L","T">>] }

\* the matcher on the company names and the blobs of the rows of the model,
\* computed once: the pairs it matches
CompanyMatching ==
    UNION { IF fuzzy_match_company_name(symbol_to_company_map[s], b) THEN {<<s, b>>} ELSE {} :
            s \in DOMAIN symbol_to_company_map,
            b \in {RowBlob(r) : r \in RowChoices} \cup {FilteredBlob(r) : r \in RowChoices} }

\* company_mask of one row
CompanyMatches(symbol, a_blob) ==
    /\ symbol \in DOMAIN symbol_to_company_map
    /\ a_blob # NAN
    /\ <<symbol, a_blob>> \in CompanyMatching

\* combined_mask of one row for one symbol
CombinedMatch(symbol, table, i, outcome_of_empty) ==
    LET a_blob == BlobFor(symbol, table, i, outcome_of_empty)
        upper_blob == IF a_blob = NAN THEN NAN ELSE StrUpper(a_blob)
        combined == SymbolMatches(symbol, upper_blob) \/ CompanyMatches(symbol, a_blob)
    IN  IF HasException(symbol)
        THEN combined /\ table[i].Source # EXCEPTION_SOURCE
        ELSE combined

\* sorted(a set of symbols)
RECURSIVE SortedSymbols(_)
SortedSymbols(S) ==
    IF S = {} THEN <<>>
    ELSE LET least == CHOOSE x \in S : \A y \in S : ~StrLess(y, x)
         IN  <<least>> \o SortedSymbols(S \ {least})

\* largest number of rows of a table
MaxRows == 2
\* largest number of symbols of a search
MaxSymbols == 2
SearchSymbols == { <<"L","T">>, <<"K","E","L","L">>, <<"B","S","E">>, <<"T","C","S">> }
\* the lists of up to n distinct elements of a set
ListsOf(S, n) ==
    {l \in UNION {[1..k -> S] : k \in 0..n} :
        \A i \in 1..Len(l) : \A j \in 1..Len(l) : i # j => l[i] # l[j]}
Tables == UNION {[1..k -> RowChoices] : k \in 0..MaxRows}
\* what pandas may do when a new column is assigned to no row
EMPTY_ASSIGN_OUTCOMES == {"raises", "nan_column", "no_column"}

varsSearchIdle == <<page_count, needs_chunk, varsPdfIdle, varsNeeds, varsMatch, varsSrv>>
InitSearch ==
    /\ entry = "search_stocks_in_dataframe"
    /\ pc = entry
    /\ df \in Tables
    /\ stocks_list \in ListsOf(SearchSymbols, MaxSymbols)
    /\ empty_assign \in (IF HasSourceRows(df) \/ df = <<>> \/ stocks_list = <<>>
                         THEN {"none"} ELSE EMPTY_ASSIGN_OUTCOMES)
    /\ stock_i = 0
    /\ mask = <<>>
    /\ matched_map = <<>>
    /\ matched_df = <<>>
    /\ page_count = 0
    /\ needs_chunk = FALSE
    /\ InitPdfIdle
    /\ InitNeedsIdle
    /\ InitMatchIdle
    /\ InitSrvIdle

\* up to the loop over the symbols: the early return, the blobs, the masks
SearchStart ==
    /\ pc = "search_stocks_in_dataframe"
    /\ IF df = <<>> \/ stocks_list = <<>>
       THEN /\ pc' = "done"
            /\ UNCHANGED <<stock_i, mask, matched_map>>
       ELSE IF ~HasSourceRows(df) /\ empty_assign = "raises"
       THEN /\ pc' = "raised"
            /\ UNCHANGED <<stock_i, mask, matched_map>>
       ELSE /\ pc' = "search_loop"
            /\ stock_i' = 1
            /\ mask' = [i \in 1..Len(df) |-> FALSE]
            /\ matched_map' = [i \in 1..Len(df) |-> {}]
    /\ UNCHANGED <<entry, df, stocks_list, empty_assign, matched_df, varsSearchIdle>>

\* one iteration of the loop over stocks_list
SearchSymbol ==
    /\ pc = "search_loop"
    /\ stock_i <= Len(stocks_list)
    /\ LET stock_symbol == stocks_list[stock_i]
           combined_mask == [i \in 1..Len(df) |->
                                CombinedMatch(stock_symbol, df, i, empty_assign)]
       IN  /\ mask' = [i \in 1..Len(df) |-> mask[i] \/ combined_mask[i]]
           /\ matched_map' = [i \in 1..Len(df) |->
                                 IF combined_mask[i] THEN matched_map[i] \cup {stock_symbol}
                                 ELSE matched_map[i]]
    /\ stock_i' = stock_i + 1
    /\ UNCHANGED <<entry, pc, df, stocks_list, empty_assign, matched_df, varsSearchIdle>>

\* the rows of the mask, each with its Matched_Stock
RECURSIVE MatchedRows(_, _, _)
MatchedRows(i, row_mask, symbols_of) ==
    IF i > Len(row_mask) THEN <<>>
    ELSE (IF row_mask[i]
          THEN <<[row |-> i, Matched_Stock |-> SortedSymbols(symbols_of[i])]>>
          ELSE <<>>) \o MatchedRows(i + 1, row_mask, symbols_of)

\* after the loop: the matched rows are returned (the keyword columns the
\* function then adds to them change neither the rows nor Matched_Stock)
SearchFinish ==
    /\ pc = "search_loop"
    /\ stock_i > Len(stocks_list)
    /\ matched_df' = MatchedRows(1, mask, matched_map)
    /\ pc' = "done"
    /\ UNCHANGED <<entry, df, stocks_list, empty_assign, stock_i, mask, matched_map,
                   varsSearchIdle>>

NextSearch ==
    \/ SearchStart
    \/ SearchSymbol
    \/ SearchFinish

SpecSearch == InitSearch /\ [][NextSearch]_vars

\* ------------------------------------------------- claims, under SpecSearch
\* the symbol stands in s with no word character next to it on either side
OccursAsWholeWord(symbol, s) ==
    \E p \in 0..(Len(s) - Len(symbol)) :
        /\ SubSeq(s, p + 1, p + Len(symbol)) = symbol
        /\ (p = 0 \/ ~IsWordChar(s[p]))
        /\ (p + Len(symbol) = Len(s) \/ ~IsWordChar(s[p + Len(symbol) + 1]))

\* the symbols of the search that match row i: the symbol occurs in the upper-cased
\* blob, as a whole word when it has at most 3 characters, or the company name the
\* symbol is mapped to fuzzy-matches the blob
ExpectedSymbols(i) ==
    {s \in {stocks_list[k] : k \in 1..Len(stocks_list)} :
        \/ IF Len(s) <= 3 THEN OccursAsWholeWord(s, RowBlobUpper(df[i]))
                          ELSE Contains(RowBlobUpper(df[i]), s)
        \/ /\ s \in DOMAIN symbol_to_company_map
           /\ <<s, RowBlob(df[i])>> \in CompanyMatching}

ExpectedRows ==
    MatchedRows(1, [i \in 1..Len(df) |-> ExpectedSymbols(i) # {}],
                   [i \in 1..Len(df) |-> ExpectedSymbols(i)])

\* the examples of the claim: LT in three texts
SymbolExamples ==
    /\ SymbolMatches(<<"L","T">>, <<"L","T"," ","L","I","M","I","T","E","D"," ","R","E","P","O","R","T","E","D">>)
    /\ ~SymbolMatches(<<"L","T">>, <<"K","E","L","L","T","O","N"," ","R","E","P","O","R","T","E","D">>)
    /\ ~SymbolMatches(<<"L","T">>, <<"L","I","M","I","T","E","D">>)

SearchReturned == entry = "search_stocks_in_dataframe" /\ pc = "done"

NAN_CELL == "nan"
\* no date (None)
NO_DATE == 0 - 1
\* the day of the first run
FirstDay == 40
\* timedelta(days=29)
RETENTION_OFFSET == 29

\* A Published or Description text is <<>> when empty, <<"n/a">> when it holds no
\* date, <<"day", d>> when it holds a date that dateutil parses as day d, and NAN
\* when the cell is missing.
IsDateText(t) == Len(t) = 2 /\ t[1] = "day"

\* parse_date_from_published
parse_date_from_published(published_str) ==
    IF published_str = NAN \/ published_str = <<>> THEN NO_DATE
    ELSE IF IsDateText(published_str) THEN published_str[2]
    ELSE NO_DATE

\* extract_date_from_description
extract_date_from_description(description_str) ==
    IF description_str = NAN \/ description_str = <<>> THEN NO_DATE
    ELSE IF IsDateText(description_str) THEN description_str[2]
    ELSE NO_DATE

\* get_record_date: the Published date, else the date of the Description
get_record_date(row) ==
    LET date == parse_date_from_published(row.Published)
    IN  IF date # NO_DATE THEN date
        ELSE extract_date_from_description(row.Description)

\* the rows of df at the indices of keep, in order
RECURSIVE RowsAt(_, _, _)
RowsAt(rows, keep, i) ==
    IF i > Len(rows) THEN <<>>
    ELSE (IF i \in keep THEN <<rows[i]>> ELSE <<>>) \o RowsAt(rows, keep, i + 1)

\* pd.read_excel: an empty cell is read as a missing value; a file without a
\* Source column gets one of empty strings
ReadExcel(file) ==
    [i \in 1..Len(file.rows) |->
        LET row == file.rows[i]
        IN  [Source |-> IF ~file.has_source THEN ""
                        ELSE IF row.Source = "" THEN NAN_CELL ELSE row.Source,
             Published |-> IF row.Published = <<>> THEN NAN ELSE row.Published,
             Link |-> IF row.Link = "" THEN NAN_CELL ELSE row.Link,
             Description |-> IF row.Description = <<>> THEN NAN ELSE row.Description]]

\* df_final.to_excel: the cells are written as they are (of a table without rows
\* only the absence of rows is kept)
ToExcel(rows) == [exists |-> TRUE, has_source |-> TRUE, rows |-> rows]

\* drop_duplicates(subset=["Link"]): the first row of every Link is kept
DropDuplicates(rows) ==
    RowsAt(rows, {i \in 1..Len(rows) : \A j \in 1..(i - 1) : rows[j].Link # rows[i].Link}, 1)

\* is_within_30_days
is_within_30_days(parsed_date, cutoff_date) ==
    parsed_date # NO_DATE /\ parsed_date >= cutoff_date

\* df_final['Source'].unique(): the indices of the first row of every Source (one
\* of them for the missing value)
UniqueSources(rows) ==
    {i \in 1..Len(rows) : \A j \in 1..(i - 1) : rows[j].Source # rows[i].Source}

\* df_final[df_final['Source'] == source]: a missing value equals nothing
SourceRows(rows, source) ==
    {i \in 1..Len(rows) : source # NAN_CELL /\ rows[i].Source = source}

\* the filtered rows of the sources from the i-th row on, source by source
RECURSIVE FilterPerSource(_, _, _)
FilterPerSource(rows, cutoff_date, i) ==
    IF i > Len(rows) THEN <<>>
    ELSE (IF i \in UniqueSources(rows)
          THEN RowsAt(rows,
                      {k \in SourceRows(rows, rows[i].Source) :
                          \/ is_within_30_days(get_record_date(rows[k]), cutoff_date)
                          \/ get_record_date(rows[k]) = NO_DATE},
                      1)
          ELSE <<>>) \o FilterPerSource(rows, cutoff_date, i + 1)

\* the retention step of run_full_fetch
RetainRows(rows, day) ==
    IF rows = <<>> THEN rows
    ELSE FilterPerSource(rows, day - RETENTION_OFFSET, 1)

\* most rows of one fetch
MaxFetched == 2
\* most rows of the store file found by the first run
MaxStored == 1
\* number of runs
MaxRuns == 2

\* rows as the fetch functions build them: a Source, the feed's texts
FetchedRows ==
    { [Source |-> "NSE", Published |-> <<"day", FirstDay>>, Link |-> "a",
       Description |-> <<>>],
      [Source |-> "BSE", Published |-> <<"n/a">>, Link |-> "a",
       Description |-> <<"day", FirstDay - RETENTION_OFFSET>>],
      [Source |-> "NSE", Published |-> <<"day", FirstDay - RETENTION_OFFSET - 1>>,
       Link |-> "b", Description |-> <<"n/a">>] }

\* rows of a store file written before the table had a Source column
LegacyRows ==
    { [Source |-> NAN_CELL, Published |-> <<"day", FirstDay>>, Link |-> "c",
       Description |-> <<>>],
      [Source |-> NAN_CELL, Published |-> <<>>, Link |-> "a",
       Description |-> <<"n/a">>] }

RowLists(rows, n) == UNION {[1..k -> rows] : k \in 0..n}

varsBaseIdle == <<page_count, needs_chunk, varsPdfIdle, varsNeeds, varsMatch, varsSearch>>
InitBaseIdle ==
    /\ page_count = 0
    /\ needs_chunk = FALSE
    /\ InitPdfIdle
    /\ InitNeedsIdle
    /\ InitMatchIdle
    /\ InitSearchIdle

varsCoreIdle == <<varsBaseIdle, varsMore>>
InitCoreIdle ==
    /\ InitBaseIdle
    /\ InitMoreIdle

varsStoreIdle == <<varsCoreIdle, varsCache, varsExtract, varsHandler>>
InitStoreOthers ==
    /\ InitCoreIdle
    /\ InitCacheIdle
    /\ InitExtractIdle
    /\ InitHandlerIdle

\* full-mode runs of main: no store file, or one without a Source column
InitStore ==
    /\ entry = "run_full_fetch"
    /\ pc = entry
    /\ excel_file \in {[exists |-> FALSE, has_source |-> FALSE, rows |-> <<>>]}
                      \cup {[exists |-> TRUE, has_source |-> FALSE, rows |-> r] :
                               r \in RowLists(LegacyRows, MaxStored)}
    /\ today = FirstDay
    /\ df_new = <<>>
    /\ df_combined = <<>>
    /\ df_final = <<>>
    /\ run_count = 1
    /\ InitStoreOthers

\* run_full_fetch up to the retention step: the fetch, the store file's rows
\* before the fetched ones, one row per Link
FullFetchCombine ==
    /\ pc = "run_full_fetch"
    /\ \E rows \in RowLists(FetchedRows, MaxFetched) :
          /\ df_new' = rows
          /\ df_combined' = IF excel_file.exists
                            THEN DropDuplicates(ReadExcel(excel_file) \o rows)
                            ELSE rows
    /\ pc' = "retention"
    /\ UNCHANGED <<entry, excel_file, today, df_final, run_count, varsStoreIdle>>

\* run_full_fetch: the retention step
FullFetchRetain ==
    /\ pc = "retention"
    /\ df_final' = RetainRows(df_combined, today)
    /\ pc' = "save"
    /\ UNCHANGED <<entry, excel_file, today, df_new, df_combined, run_count, varsStoreIdle>>

\* main: the table is written to the store file, unless the file cannot be written
SaveStore ==
    /\ pc = "save"
    /\ \/ excel_file' = ToExcel(df_final)
       \/ excel_file' = excel_file
    /\ pc' = "saved"
    /\ UNCHANGED <<entry, today, df_new, df_combined, df_final, run_count, varsStoreIdle>>

\* the next run, the same day or the day after
NextRun ==
    /\ pc = "saved"
    /\ run_count < MaxRuns
    /\ run_count' = run_count + 1
    /\ today' \in {today, today + 1}
    /\ pc' = "run_full_fetch"
    /\ UNCHANGED <<entry, excel_file, df_new, df_combined, df_final, varsStoreIdle>>

NextStore ==
    \/ FullFetchCombine
    \/ FullFetchRetain
    \/ SaveStore
    \/ NextRun

SpecStore == InitStore /\ [][NextStore]_vars

\* -------------------------------------------------- claims, under SpecStore
RowsOf(rows) == {rows[i] : i \in 1..Len(rows)}

\* C16: after the retention step, whatever the Source of a record of the combined
\* table, the record is retained when it has no derivable date or a date of
\* today - 29 days or later, and dropped when its date is today - 30 days or
\* earlier; nothing else is removed and nothing is added.
C16_RetentionByDateOnly ==
    (entry = "run_full_fetch" /\ pc = "save") =>
        /\ \A row \in RowsOf(df_combined) :
              LET date == get_record_date(row)
              IN  /\ (date = NO_DATE \/ date >= today - 29) => row \in RowsOf(df_final)
                  /\ (date # NO_DATE /\ date <= today - 30) => row \notin RowsOf(df_final)
        /\ RowsOf(df_final) \subseteq RowsOf(df_combined)

\* C17: the table written to the store file has no two rows with the same Link.
C17_NoDuplicateLinks ==
    (entry = "run_full_fetch" /\ pc = "saved") =>
        \A i, j \in 1..Len(excel_file.rows) :
            excel_file.rows[i].Link = excel_file.rows[j].Link => i = j

\* ============================================================== SearchCache.load
\* last time of the file system
MaxClock == 3
\* most versions of the store file
MaxVersion == 2
\* number of loads
MaxLoads == 2

\* self.df is None or self.mtime != mtime
MustRead(cached_df, cached_mtime, file_mtime) ==
    cached_df = NOT_LOADED \/ cached_mtime # file_mtime

\* pd.read_excel raised
READ_RAISES == 0 - 2

\* a mutant: a read takes what it finds in the file; 0 stands for a table that is
\* no complete version
ReadResult_Unchecked(opened, ended) ==
    IF opened.partial \/ ended.partial \/ opened.version # ended.version
    THEN 0
    ELSE ended.version

\* what pd.read_excel(EXCEL_FILE) gives when the file was as `opened` when the read
\* began and as `ended` when it finished. The store is an .xlsx file, a zip archive:
\* its directory is written last and holds the checksum of every part, so a file
\* that is being written, or was rewritten while it was read, does not load.
ReadResult(opened, ended) ==
    IF opened.partial \/ ended.partial \/ opened.version # ended.version
    THEN READ_RAISES
    ELSE ended.version

\* a mutant: the mtime recorded is the one the file has after it was read
RecordedMtime_AfterRead(observed, current) == current

\* self.mtime = mtime: the mtime taken before the file was read
RecordedMtime(observed, current) == observed

varsCacheIdle == <<varsCoreIdle, varsStore, varsExtract, varsHandler>>

\* the server starts with an empty cache; the store file is there or not
InitCache ==
    /\ entry = "SearchCache.load"
    /\ pc = "load"
    /\ fs_clock = 1
    /\ served_file \in {[exists |-> FALSE, partial |-> FALSE, version |-> 0, mtime |-> 0]}
                        \cup {[exists |-> TRUE, partial |-> FALSE, version |-> 1,
                                mtime |-> m] : m \in 0..1}
    /\ cache_df = NOT_LOADED
    /\ cache_mtime = NOT_LOADED
    /\ cache_read_at = 0
    /\ mtime = 0
    /\ old_df = NOT_LOADED
    /\ old_mtime = NOT_LOADED
    /\ load_read = FALSE
    /\ loads = 1
    /\ read_open = [exists |-> FALSE, partial |-> FALSE, version |-> 0, mtime |-> 0]
    /\ InitCoreIdle
    /\ InitStoreIdle
    /\ InitExtractIdle
    /\ InitHandlerIdle

\* load: the file must exist
LoadExists ==
    /\ pc = "load"
    /\ old_df' = cache_df
    /\ old_mtime' = cache_mtime
    /\ load_read' = FALSE
    /\ pc' = IF served_file.exists THEN "getmtime" ELSE "load_raised"
    /\ UNCHANGED <<entry, fs_clock, served_file, cache_df, cache_mtime, cache_read_at, mtime,
                   loads, read_open, varsCacheIdle>>

\* load: mtime = os.path.getmtime(EXCEL_FILE)
LoadGetMtime ==
    /\ pc = "getmtime"
    /\ mtime' = served_file.mtime
    /\ pc' = "check"
    /\ UNCHANGED <<entry, fs_clock, served_file, cache_df, cache_mtime, cache_read_at, old_df,
                   old_mtime, load_read, loads, read_open, varsCacheIdle>>

\* load: the test and, when it holds, pd.read_excel opens the file
LoadRead ==
    /\ pc = "check"
    /\ IF ~MustRead(cache_df, cache_mtime, mtime)
       THEN /\ pc' = "loaded"
            /\ UNCHANGED read_open
       ELSE /\ pc' = "reading"
            /\ read_open' = served_file
    /\ UNCHANGED <<entry, fs_clock, served_file, cache_df, cache_mtime, cache_read_at, mtime,
                   old_df, old_mtime, load_read, loads, varsCacheIdle>>

\* load: pd.read_excel ends, with the file as it is by then: it raises, and self.df
\* is not assigned, or returns the table
LoadReadEnd ==
    /\ pc = "reading"
    /\ LET result == ReadResult(read_open, served_file)
       IN  IF result = READ_RAISES
           THEN /\ pc' = "load_raised"
                /\ UNCHANGED <<cache_df, cache_read_at, load_read>>
           ELSE /\ cache_df' = result
                /\ cache_read_at' = fs_clock
                /\ load_read' = TRUE
                /\ pc' = "set_mtime"
    /\ UNCHANGED <<entry, fs_clock, served_file, cache_mtime, mtime, old_df, old_mtime, loads,
                   read_open, varsCacheIdle>>

\* load: self.mtime = mtime
LoadSetMtime ==
    /\ pc = "set_mtime"
    /\ cache_mtime' = RecordedMtime(mtime, served_file.mtime)
    /\ pc' = "loaded"
    /\ UNCHANGED <<entry, fs_clock, served_file, cache_df, cache_read_at, mtime, old_df,
                   old_mtime, load_read, loads, read_open, varsCacheIdle>>

\* the next request calls load again
NextLoad ==
    /\ pc \in {"loaded", "load_raised"}
    /\ loads < MaxLoads
    /\ loads' = loads + 1
    /\ pc' = "load"
    /\ UNCHANGED <<entry, fs_clock, served_file, cache_df, cache_mtime, cache_read_at, mtime,
                   old_df, old_mtime, load_read, read_open, varsCacheIdle>>

\* time passes
Tick ==
    /\ fs_clock < MaxClock
    /\ fs_clock' = fs_clock + 1
    /\ UNCHANGED <<entry, pc, served_file, cache_df, cache_mtime, cache_read_at, mtime, old_df,
                   old_mtime, load_read, loads, read_open, varsCacheIdle>>

\* another process opens the store file for writing
WriteBegin ==
    /\ ~served_file.partial
    /\ served_file.version < MaxVersion
    /\ served_file' = [exists |-> TRUE, partial |-> TRUE, version |-> served_file.version,
                       mtime |-> fs_clock]
    /\ UNCHANGED <<entry, pc, fs_clock, cache_df, cache_mtime, cache_read_at, mtime, old_df,
                   old_mtime, load_read, loads, read_open, varsCacheIdle>>

\* and finishes writing it
WriteEnd ==
    /\ served_file.partial
    /\ served_file' = [exists |-> TRUE, partial |-> FALSE,
                       version |-> served_file.version + 1, mtime |-> fs_clock]
    /\ UNCHANGED <<entry, pc, fs_clock, cache_df, cache_mtime, cache_read_at, mtime, old_df,
                   old_mtime, load_read, loads, read_open, varsCacheIdle>>

NextCache ==
    \/ LoadExists
    \/ LoadGetMtime
    \/ LoadRead
    \/ LoadReadEnd
    \/ LoadSetMtime
    \/ NextLoad
    \/ Tick
    \/ WriteBegin
    \/ WriteEnd

SpecCache == InitCache /\ [][NextCache]_vars

\* -------------------------------------------------- claims, under SpecCache
LoadReturned == entry = "SearchCache.load" /\ pc = "loaded"

\* C18: a load that returns has read the file iff nothing was cached or the
\* file's mtime differed from the cached one, and has otherwise left the cached
\* table alone; the cache then records the mtime the load saw and holds a table
\* that was read at or after that time.
C18_ReloadIffMtimeChanged ==
    LoadReturned =>
        /\ load_read <=> (old_df = NOT_LOADED \/ old_mtime # mtime)
        /\ ~load_read => (cache_df = old_df /\ cache_mtime = old_mtime)
        /\ cache_df # NOT_LOADED
        /\ cache_mtime = mtime
        /\ cache_read_at >= cache_mtime

\* C18 witness: a second load found another mtime and read a newer table, and the
\* file was written again while the load went on
C18_Witness ==
    /\ LoadReturned
    /\ load_read
    /\ old_df # NOT_LOADED
    /\ cache_df > old_df
    /\ served_file.mtime > cache_mtime

\* ======================================================= process_pdf: extraction
\* extraction_methods, in the order of the list
extraction_methods == <<"pdfplumber", "pypdf", "pdfminer">>

\* what an extractor does with the file: it raises, returns an empty text (a file
\* of scanned pages), or returns a text
EXTRACT_OUTCOMES == {"raises", "empty", "text"}

\* the text extractor i returns
TextOf(i, returned) ==
    IF returned = "empty" THEN ""
    ELSE IF i = 1 THEN "text by pdfplumber"
    ELSE IF i = 2 THEN "text by pypdf"
    ELSE "text by pdfminer"

varsExtractIdle == <<varsCoreIdle, varsStore, varsCache, varsHandler>>

\* process_pdf on a file that exists
InitExtract ==
    /\ entry = "process_pdf"
    /\ pc = "extraction_loop"
    /\ is_available \in [1..Len(extraction_methods) -> BOOLEAN]
    /\ extract_outcome \in [1..Len(extraction_methods) -> EXTRACT_OUTCOMES]
    /\ method_i = 1
    /\ extracted_text = "None"
    /\ extraction_method = "None"
    /\ tried = <<>>
    /\ InitCoreIdle
    /\ InitStoreIdle
    /\ InitCacheIdle
    /\ InitHandlerIdle

\* one iteration of the loop over extraction_methods
TryExtractor ==
    /\ pc = "extraction_loop"
    /\ method_i <= Len(extraction_methods)
    /\ IF ~is_available[method_i]
       THEN /\ method_i' = method_i + 1
            /\ UNCHANGED <<pc, extracted_text, extraction_method, tried>>
       ELSE /\ tried' = Append(tried, extraction_methods[method_i])
            /\ IF extract_outcome[method_i] = "raises"
               THEN /\ method_i' = method_i + 1
                    /\ UNCHANGED <<pc, extracted_text, extraction_method>>
               ELSE /\ extracted_text' = TextOf(method_i, extract_outcome[method_i])
                    /\ extraction_method' = extraction_methods[method_i]
                    /\ pc' = "after_loop"
                    /\ UNCHANGED method_i
    /\ UNCHANGED <<entry, is_available, extract_outcome, varsExtractIdle>>

\* the list is exhausted
ExtractorsExhausted ==
    /\ pc = "extraction_loop"
    /\ method_i > Len(extraction_methods)
    /\ pc' = "after_loop"
    /\ UNCHANGED <<entry, is_available, extract_outcome, method_i, extracted_text,
                   extraction_method, tried, varsExtractIdle>>

\* if not extracted_text: raise Exception("All PDF extraction methods failed")
CheckExtracted ==
    /\ pc = "after_loop"
    /\ pc' = IF extracted_text = "None" \/ extracted_text = "" THEN "all_failed"
             ELSE "extracted"
    /\ UNCHANGED <<entry, is_available, extract_outcome, method_i, extracted_text,
                   extraction_method, tried, varsExtractIdle>>

NextExtract ==
    \/ TryExtractor
    \/ ExtractorsExhausted
    \/ CheckExtracted

SpecExtract == InitExtract /\ [][NextExtract]_vars

\* ------------------------------------------------ claims, under SpecExtract
\* the extractors that are available and return without raising
Returning ==
    {i \in 1..Len(extraction_methods) : is_available[i] /\ extract_outcome[i] # "raises"}

\* C19: process_pdf fails with the all-extractors-failed error iff every extractor
\* is unavailable or raises; otherwise the text and the extraction_method are
\* those of the first extractor, in the order pdfplumber, pypdf, pdfminer, that
\* returns without raising, and the extractors called are the available ones up
\* to that one.
C19_FirstReturningExtractor ==
    (entry = "process_pdf" /\ pc \in {"all_failed", "extracted"}) =>
        /\ pc = "all_failed" <=> Returning = {}
        /\ pc = "extracted" =>
              LET first == SetMin(Returning)
              IN  /\ extraction_method = extraction_methods[first]
                  /\ extracted_text = TextOf(first, extract_outcome[first])
                  /\ tried = SelectSeq(SubSeq(extraction_methods, 1, first),
                                       LAMBDA m : \E i \in 1..first :
                                           extraction_methods[i] = m /\ is_available[i])

\* ================================================================ SearchHandler
\* max_retries of the download loop
MAX_DOWNLOAD_RETRIES == 3

\* the classes of the exceptions raised, each with the classes it belongs to
ExceptionBases ==
    [JSONDecodeError |-> {"JSONDecodeError", "ValueError", "Exception"},
     UnicodeDecodeError |-> {"UnicodeDecodeError", "ValueError", "Exception"},
     ValueError |-> {"ValueError", "Exception"},
     AttributeError |-> {"AttributeError", "Exception"},
     FileNotFoundError |-> {"FileNotFoundError", "OSError", "Exception"},
     HTTPError |-> {"HTTPError", "RequestException", "OSError", "Exception"},
     Timeout |-> {"Timeout", "RequestException", "OSError", "Exception"},
     Exception |-> {"Exception"}]

\* except <class>: the clause catches the exception
Catches(class, raised) == class \in ExceptionBases[raised]

\* the request bodies: bytes that are no UTF-8 text, a text that is no JSON, a
\* JSON array, and JSON objects with or without the two keys
BodyObjects ==
    [kind : {"object"},
     stock : {"absent", "null", "blank", "LT"},
     pdf_urls : {"absent", "empty", "one"}]
Bodies ==
    [kind : {"not_utf8", "not_json", "array"}, stock : {"absent"}, pdf_urls : {"absent"}]
        \cup BodyObjects

\* the requests
GetRequests ==
    [method : {"GET"}, path : {"/search", "/other"}, stock : {"absent", "blank", "LT"},
     content_length : {"absent"}, body : {[kind |-> "none", stock |-> "absent",
                                           pdf_urls |-> "absent"]}]
PostRequests ==
    [method : {"POST"}, path : {"/process_pdfs", "/other"}, stock : {"absent"},
     content_length : {"absent", "zero", "invalid", "length"}, body : Bodies]

\* what the attempts of the download do
DownloadAttempts ==
    [1..MAX_DOWNLOAD_RETRIES -> {"ok", "timeout", "http_error", "empty_file"}]

\* what the request meets: the client still connected or gone, the store file
\* and the search, the download, the summary
Envs ==
    [client : {"connected", "gone"},
     store : {"ok", "missing", "search_raises"},
     download : DownloadAttempts,
     summary : {"ok", "raises"}]

\* the download loop from attempt a on: "ok" or the class of the exception
RECURSIVE Download(_, _)
Download(tries, a) ==
    IF tries[a] = "ok" THEN "ok"
    ELSE IF tries[a] = "timeout"
    THEN (IF a < MAX_DOWNLOAD_RETRIES THEN Download(tries, a + 1) ELSE "Exception")
    ELSE IF tries[a] = "http_error" THEN "HTTPError"
    ELSE "Exception"

\* a response and how the operation ended
Reply(status, is_error, ended) ==
    [status |-> status, is_error |-> is_error, ended |-> ended]

\* do_GET, for a client that receives the response
GetReply(req, e) ==
    IF req.path # "/search" THEN Reply(404, TRUE, "rejected")
    ELSE IF req.stock \in {"absent", "blank"} THEN Reply(400, TRUE, "rejected")
    ELSE IF e.store = "missing" THEN Reply(500, TRUE, "failed")
    ELSE IF e.store = "search_raises" THEN Reply(500, TRUE, "failed")
    ELSE Reply(200, FALSE, "succeeded")

\* _handle_process_pdfs up to the download: "ok" or the reply of an early return,
\* or the class of the exception raised
ReadBody(req) ==
    IF req.content_length = "invalid" THEN "ValueError"
    ELSE IF req.content_length \in {"absent", "zero"} THEN "empty"
    ELSE IF req.body.kind = "not_utf8" THEN "UnicodeDecodeError"
    ELSE IF req.body.kind = "not_json" THEN "JSONDecodeError"
    ELSE IF req.body.kind = "array" THEN "AttributeError"
    ELSE IF req.body.stock = "null" THEN "AttributeError"
    ELSE IF req.body.stock \in {"absent", "blank"} THEN "no_stock"
    ELSE IF req.body.pdf_urls \in {"absent", "empty"} THEN "no_urls"
    ELSE "ok"

\* the except clauses of the outer try
OuterExcept(raised) ==
    IF Catches("JSONDecodeError", raised) THEN Reply(400, TRUE, "rejected")
    ELSE Reply(500, TRUE, "failed")

\* the inner try: download, summary, and its except clauses (two texts, one status)
ProcessReply(e) ==
    LET downloaded == Download(e.download, 1)
        raised == IF downloaded # "ok" THEN downloaded
                  ELSE IF e.summary = "raises" THEN "Exception"
                  ELSE "none"
    IN  IF raised = "none" THEN Reply(200, FALSE, "succeeded")
        ELSE IF Catches("RequestException", raised) THEN Reply(500, TRUE, "failed")
        ELSE Reply(500, TRUE, "failed")

\* do_POST, for a client that receives the response
PostReply(req, e) ==
    IF req.path # "/process_pdfs" THEN Reply(404, TRUE, "rejected")
    ELSE LET read == ReadBody(req)
         IN  IF read \in {"empty", "no_stock", "no_urls"} THEN Reply(400, TRUE, "rejected")
             ELSE IF read = "ok" THEN ProcessReply(e)
             ELSE OuterExcept(read)

\* the request reaches the download
ReachesProcessing(req) ==
    req.method = "POST" /\ req.path = "/process_pdfs" /\ ReadBody(req) = "ok"

\* the file at pdf_path after the download loop from attempt a on: requests.get
\* and raise_for_status raise before the file is opened, open(pdf_path, "wb")
\* creates it, also when nothing is written to it
RECURSIVE FileAfterDownload(_, _, _)
FileAfterDownload(tries, a, exists) ==
    IF tries[a] \in {"ok", "empty_file"} THEN TRUE
    ELSE IF tries[a] = "timeout" /\ a < MAX_DOWNLOAD_RETRIES
    THEN FileAfterDownload(tries, a + 1, exists)
    ELSE exists

\* the cleanup of the success path: os.remove(pdf_path), an exception ignored
CleanupOnSuccess(exists) == FALSE

\* a mutant: the except clauses do not remove the file
CleanupOnError_Skipped(exists) == exists

\* the cleanup of the two except clauses: if os.path.exists(pdf_path): os.remove
CleanupOnError(exists) == IF exists THEN FALSE ELSE exists

\* the file at pdf_path when _handle_process_pdfs is left
PdfAfter(req, e, exists) ==
    IF ~ReachesProcessing(req) THEN exists
    ELSE LET file == FileAfterDownload(e.download, 1, exists)
         IN  IF Download(e.download, 1) = "ok" /\ e.summary = "ok"
             THEN CleanupOnSuccess(file)
             ELSE CleanupOnError(file)

\* the request reaches cache.load()
ReachesSearch(req) ==
    req.method = "GET" /\ req.path = "/search" /\ req.stock \notin {"absent", "blank"}

\* the parts of what the request meets that the handler consults
EnvsOf(req) ==
    {e \in Envs :
        /\ ~ReachesSearch(req) => e.store = "ok"
        /\ ~ReachesProcessing(req) =>
              (e.summary = "ok" /\ \A a \in 1..MAX_DOWNLOAD_RETRIES : e.download[a] = "ok")}

varsHandlerIdle == <<varsCoreIdle, varsStore, varsCache, varsExtract>>

InitHandler ==
    /\ entry = "SearchHandler"
    /\ pc = "request"
    /\ http_request \in GetRequests \cup PostRequests
    /\ env = [none |-> TRUE]
    /\ responses = <<>>
    /\ escaped = FALSE
    /\ operation = "none"
    /\ pdf_exists \in BOOLEAN
    /\ InitCoreIdle
    /\ InitStoreIdle
    /\ InitCacheIdle
    /\ InitExtractIdle

\* _send_json to a client that is gone raises; in _handle_process_pdfs the except
\* clauses catch it and send again, which raises again
Respond(reply, e) ==
    /\ env' = e
    /\ IF e.client = "connected"
       THEN /\ responses' = <<[status |-> reply.status, is_error |-> reply.is_error]>>
            /\ escaped' = FALSE
       ELSE /\ responses' = <<>>
            /\ escaped' = TRUE
    /\ operation' = reply.ended
    /\ pc' = "handled"

do_GET ==
    /\ pc = "request"
    /\ http_request.method = "GET"
    /\ \E e \in EnvsOf(http_request) : Respond(GetReply(http_request, e), e)
    /\ UNCHANGED <<entry, http_request, pdf_exists, varsHandlerIdle>>

do_POST ==
    /\ pc = "request"
    /\ http_request.method = "POST"
    /\ \E e \in EnvsOf(http_request) :
          /\ Respond(PostReply(http_request, e), e)
          /\ pdf_exists' = PdfAfter(http_request, e, pdf_exists)
    /\ UNCHANGED <<entry, http_request, varsHandlerIdle>>

NextHandler ==
    \/ do_GET
    \/ do_POST

SpecHandler == InitHandler /\ [][NextHandler]_vars

\* ------------------------------------------------ claims, under SpecHandler
\* the one response has the status, with an error message
RespondedError(status) ==
    /\ Len(responses) = 1
    /\ responses[1].status = status
    /\ responses[1].is_error

\* C20: a request whose client stays connected ends with exactly one response and
\* no exception leaves the handler; GET: 404 off /search, 400 for a missing or
\* blank stock, 500 with an error when the store is missing or the search raises;
\* POST: 404 off /process_pdfs, 400 for an empty body, invalid JSON, a missing
\* stock or empty pdf_urls, 500 with an error when the download or the processing
\* fails; 200 only when the operation succeeded.
C20_HandlerResponses ==
    (entry = "SearchHandler" /\ pc = "handled" /\ env.client = "connected") =>
        LET req == http_request
            body == http_request.body
        IN  /\ Len(responses) = 1
            /\ ~escaped
            /\ responses[1].status = 200 => operation = "succeeded"
            /\ req.method = "GET" =>
                  /\ req.path # "/search" => RespondedError(404)
                  /\ (req.path = "/search" /\ req.stock \in {"absent", "blank"})
                        => RespondedError(400)
                  /\ (ReachesSearch(req) /\ env.store # "ok") => RespondedError(500)
            /\ req.method = "POST" =>
                  /\ req.path # "/process_pdfs" => RespondedError(404)
                  /\ (req.path = "/process_pdfs" /\ req.content_length \in {"absent", "zero"})
                        => RespondedError(400)
                  /\ (req.path = "/process_pdfs" /\ req.content_length = "length"
                         /\ body.kind \in {"not_utf8", "not_json"})
                        => RespondedError(400)
                  /\ (req.path = "/process_pdfs" /\ req.content_length = "length"
                         /\ body.kind = "object"
                         /\ (body.stock \in {"absent", "blank"}
                                \/ (body.stock = "LT" /\ body.pdf_urls \in {"absent", "empty"})))
                        => RespondedError(400)
                  /\ (ReachesProcessing(req)
                         /\ (Download(env.download, 1) # "ok" \/ env.summary = "raises"))
                        => RespondedError(500)

\* ------------------------------------------- retry delay, under Spec
\* the wait the claim states for a rate-limit failure of attempt k
StatedWait(e, k) ==
    IF e.hint # NoHint THEN e.hint + 1 ELSE 2 * Pow2(k)

\* C21: when a rate-limit failure of attempt k is followed by a retry, the time
\* that passes is the time of the call plus the wait: the suggested retry time plus
\* one second whenever the error text carries one (0 included), and
\* base_delay * 2^k only when it carries none.
C21_RetryDelay ==
    [][(pc = "send" /\ pc' = "call_loop") =>
          \E dur \in 0..MaxCallTime :
              now' = now + dur + StatedWait(last_error'[1], attempt)]_vars

\* ============================================= enforce_rate_limit, by threads
\* number of threads that call enforce_rate_limit
MaxThreads == 2
\* how long the clock runs after the first call
MaxWall == 7

Threads == 1..MaxThreads

varsLimiterIdle == <<varsBaseIdle, varsStore, varsCache, varsExtract, varsHandler, varsMain>>

\* every thread is about to call enforce_rate_limit; no request was made before,
\* and the clock is past the first interval (time.time() is the epoch time)
InitLimiter ==
    /\ entry = "enforce_rate_limit"
    /\ pc = "threads"
    /\ wall = MIN_REQUEST_INTERVAL
    /\ shared_last = 0
    /\ thr = [t \in Threads |-> [at |-> "current_time", current_time |-> 0, wake |-> 0]]
    /\ released = <<>>
    /\ InitBaseIdle
    /\ InitStoreIdle
    /\ InitCacheIdle
    /\ InitExtractIdle
    /\ InitHandlerIdle
    /\ InitMainIdle

\* current_time = time.time()
ThreadReadsClock(t) ==
    /\ thr[t].at = "current_time"
    /\ thr' = [thr EXCEPT ![t] = [at |-> "time_since_last", current_time |-> wall,
                                  wake |-> 0]]
    /\ UNCHANGED <<entry, pc, wall, shared_last, released, varsLimiterIdle>>

\* time_since_last = current_time - _last_request_time, and the test: the thread
\* goes to sleep for the rest of the interval, or goes on
ThreadReadsLast(t) ==
    /\ thr[t].at = "time_since_last"
    /\ LET time_since_last == thr[t].current_time - shared_last
       IN  thr' = [thr EXCEPT ![t] =
                     IF time_since_last < MIN_REQUEST_INTERVAL
                     THEN [at |-> "sleep", current_time |-> 0,
                           wake |-> wall + (MIN_REQUEST_INTERVAL - time_since_last)]
                     ELSE [at |-> "set_last", current_time |-> 0, wake |-> 0]]
    /\ UNCHANGED <<entry, pc, wall, shared_last, released, varsLimiterIdle>>

\* time.sleep(wait_time) returns
ThreadWakes(t) ==
    /\ thr[t].at = "sleep"
    /\ wall >= thr[t].wake
    /\ thr' = [thr EXCEPT ![t] = [at |-> "set_last", current_time |-> 0, wake |-> 0]]
    /\ UNCHANGED <<entry, pc, wall, shared_last, released, varsLimiterIdle>>

\* _last_request_time = time.time(), and the call returns: the request goes out
ThreadSetsLast(t) ==
    /\ thr[t].at = "set_last"
    /\ shared_last' = wall
    /\ released' = Append(released, wall)
    /\ thr' = [thr EXCEPT ![t].at = "returned"]
    /\ UNCHANGED <<entry, pc, wall, varsLimiterIdle>>

\* time passes
WallTick ==
    /\ wall < MIN_REQUEST_INTERVAL + MaxWall
    /\ wall' = wall + 1
    /\ UNCHANGED <<entry, pc, shared_last, thr, released, varsLimiterIdle>>

ThreadStep ==
    \E t \in Threads :
        \/ ThreadReadsClock(t)
        \/ ThreadReadsLast(t)
        \/ ThreadWakes(t)
        \/ ThreadSetsLast(t)

NextLimiter ==
    \/ ThreadStep
    \/ WallTick

SpecLimiter == InitLimiter /\ [][NextLimiter]_vars

\* C22: whatever the interleaving of the threads, no two calls are released less
\* than MIN_REQUEST_INTERVAL apart.
C22_ReleasesSpaced ==
    entry = "enforce_rate_limit" =>
        \A i, j \in 1..Len(released) :
            i < j => released[j] - released[i] >= MIN_REQUEST_INTERVAL

\* ------------------------------------- detect_sections, under SpecChunk
\* no line of the text passes the header test of detect_sections
NoHeaderDetected(t) ==
    LET lines == SplitLines(t)
    IN  \A i \in 0..(Len(lines) - 1) :
            \/ Len(Strip(LineAt(lines, i))) < MIN_HEADER_LEN
            \/ ~IsHeaderLine(lines, i)

\* C23: once chunk_text_semantic has called detect_sections, the list of sections is
\* empty, and the page-based chunker is the one that runs, exactly when no line of
\* the text was detected as a header.
C23_HeaderlessFallsBack ==
    (entry = "chunk_text_semantic" /\ pc # "chunk_text_semantic") =>
        (NoHeaderDetected(text) <=> (sections = <<>> /\ win_kind = "page"))

\* line i (0-based) is long enough and passes the header test
HeaderAt(lines, i) ==
    /\ Len(Strip(LineAt(lines, i))) >= MIN_HEADER_LEN
    /\ IsHeaderLine(lines, i)

\* C24: the sections detect_sections returned are ordered and tile the document:
\* the first starts at line 0 and character 0, each ends at the line where the next
\* starts, the last ends at the number of lines, none is empty, the character
\* offsets never decrease; the first section is the seeded "Introduction" unless
\* line 0 is a header, and then it is that header's section.
C24_SectionsTile ==
    (entry = "chunk_text_semantic" /\ pc # "chunk_text_semantic") =>
        LET lines == SplitLines(text)
            n == Len(sections)
        IN  /\ n >= 1
            /\ sections[1].start = 0
            /\ sections[1].char_start = 0
            /\ sections[n].end = Len(lines)
            /\ \A k \in 1..n :
                  /\ sections[k].start < sections[k].end
                  /\ sections[k].char_start <= sections[k].char_end
            /\ \A k \in 1..(n - 1) :
                  /\ sections[k].end = sections[k + 1].start
                  /\ sections[k].char_end <= sections[k + 1].char_start
            /\ sections[1].title =
                  IF HeaderAt(lines, 0) THEN Strip(LineAt(lines, 0)) ELSE INTRO_TITLE

\* a text whose first line is no header and a later one is: the seeded section
\* and at least one detected section
C24_Witness ==
    /\ entry = "chunk_text_semantic"
    /\ pc # "chunk_text_semantic"
    /\ Len(sections) >= 2
    /\ sections[1].title = INTRO_TITLE
    /\ ~HeaderAt(SplitLines(text), 0)

\* ----------------------------------- the exception rule, under SpecSearch
\* row i is in the result with the symbol in its Matched_Stock
ReturnedFor(i, symbol) ==
    \E k \in 1..Len(matched_df) :
        /\ matched_df[k].row = i
        /\ \E j \in 1..Len(matched_df[k].Matched_Stock) :
              matched_df[k].Matched_Stock[j] = symbol

\* C25: in a search for the symbol BSE on a table that holds rows of source BSE,
\* a row of another source whose text contains BSE as a whole word is returned for
\* BSE (it is matched against its full blob), and no row of source BSE is
\* returned for BSE.
C25_ExceptionOnlyOnSourceRows ==
    (SearchReturned /\ HasSourceRows(df)
        /\ \E k \in 1..Len(stocks_list) : stocks_list[k] = EXCEPTION_SYMBOL)
    => \A i \in 1..Len(df) :
          IF df[i].Source = EXCEPTION_SOURCE
          THEN ~ReturnedFor(i, EXCEPTION_SYMBOL)
          ELSE OccursAsWholeWord(EXCEPTION_SYMBOL, RowBlobUpper(df[i]))
                  => ReturnedFor(i, EXCEPTION_SYMBOL)

MaxNameWords == 3
\* most words of a text
MaxTextWords == 3
\* the words of the names, all significant
NameWords == { <<"C","d","e">>, <<"F","g","h">>, <<"X","y","z">> }
\* the words of the texts: the same, and one that only holds a word of the names
TextWords == NameWords \cup { <<"x","C","d","e">> }

\* the names of two or more different words
WordNames ==
    {JoinWords(ws) : ws \in {l \in UNION {[1..k -> NameWords] : k \in 2..MaxNameWords} :
                                 \A i, j \in 1..Len(l) : i # j => l[i] # l[j]}}
WordTexts == {JoinWords(ws) : ws \in UNION {[1..k -> TextWords] : k \in 1..MaxTextWords}}

\* fuzzy_match_company_name called on a name of several words and a text of words
InitFuzzyWords ==
    /\ entry = "fuzzy_match_company_name"
    /\ pc = entry
    /\ search_name \in WordNames
    /\ blob \in WordTexts
    /\ row_match = "none"
    /\ name = <<>>
    /\ normalized = <<>>
    /\ InitMatchOnly

SpecFuzzyWords == InitFuzzyWords /\ [][NextFuzzy]_vars

\* C27: for a name of two or more significant words the matcher returns true only
\* for a text that holds the name's first significant word among its significant
\* words, and returns true for every text that holds all of the name's
\* significant words, in whatever order.
C27_FirstWordRequired ==
    (entry = "fuzzy_match_company_name" /\ pc = "done") =>
        LET search_words == extract_significant_words(normalize_company_name(search_name))
            text_words == extract_significant_words(normalize_company_name(blob))
        IN  Len(search_words) >= 2 =>
                /\ row_match = "true" => InWords(search_words[1], text_words)
                /\ (\A i \in 1..Len(search_words) : InWords(search_words[i], text_words))
                      => row_match = "true"

MaxStoreVersion == 2

\* what the user may type at the run-mode prompt
ModeInputs ==
    { <<"t","e","s","t">>, <<"f","u","l","l">>, <<>>, <<"T","E","S","T">>,
      <<SP,"t","e","s","t",SP>>, <<"F","u","l","l">>, <<"t","s","e","t">>,
      <<"t","e","s","t","s">> }
\* the answers to the stock-filter prompt, after .strip().lower()
FilterAnswers == {"yes", "y", "no", "other"}

MODE_TEST == <<"t","e","s","t">>
MODE_FULL == <<"f","u","l","l">>

\* input(...).strip().lower()
NormalizedMode(typed) == LET t == Strip(typed) IN SubSeq(StrLower(t), 1, Len(t))

\* choose_run_mode
ChosenMode(is_inter, typed) ==
    IF ~is_inter THEN "full"
    ELSE IF NormalizedMode(typed) = MODE_TEST THEN "test"
    ELSE IF NormalizedMode(typed) = MODE_FULL THEN "full"
    ELSE "full"

\* a mutant: the store is saved in every mode
SavesStore_Always(mode) == TRUE

\* if run_mode == "full": the save is reached
SavesStore(mode) == mode = "full"

varsMainIdle == <<varsBaseIdle, varsStore, varsCache, varsExtract, varsHandler, varsLimiter>>

\* main starts; a non-interactive run has no prompt, and nothing is typed
InitMain ==
    /\ entry = "main"
    /\ pc = "choose_run_mode"
    /\ interactive \in BOOLEAN
    /\ mode_input \in (IF interactive THEN ModeInputs ELSE {<<>>})
    /\ run_mode = "none"
    /\ user_input = "none"
    /\ fetched = FALSE
    /\ store_version \in 0..MaxStoreVersion
    /\ store_before = store_version
    /\ InitBaseIdle
    /\ InitStoreIdle
    /\ InitCacheIdle
    /\ InitExtractIdle
    /\ InitHandlerIdle
    /\ InitLimiterIdle

\* run_mode = choose_run_mode()
ChooseRunMode ==
    /\ pc = "choose_run_mode"
    /\ run_mode' = ChosenMode(interactive, mode_input)
    /\ pc' = "run"
    /\ UNCHANGED <<entry, interactive, mode_input, user_input, fetched, store_version,
                   store_before, varsMainIdle>>

\* run_test_mode: the store file is read, if it is there
RunTestMode ==
    /\ pc = "run"
    /\ run_mode = "test"
    /\ pc' = "prompt"
    /\ UNCHANGED <<entry, interactive, mode_input, run_mode, user_input, fetched,
                   store_version, store_before, varsMainIdle>>

\* run_full_fetch: the feeds are fetched, the store file is read
RunFullFetch ==
    /\ pc = "run"
    /\ run_mode # "test"
    /\ fetched' = TRUE
    /\ pc' = "prompt"
    /\ UNCHANGED <<entry, interactive, mode_input, run_mode, user_input, store_version,
                   store_before, varsMainIdle>>

\* the stock-filter prompt and what follows from the answer: the search and the
\* HTML page, which write other files than the store
StockFilter ==
    /\ pc = "prompt"
    /\ user_input' \in (IF interactive THEN FilterAnswers ELSE {"no"})
    /\ pc' = "save"
    /\ UNCHANGED <<entry, interactive, mode_input, run_mode, fetched, store_version,
                   store_before, varsMainIdle>>

\* SAVE TO EXCEL (only in full mode): to_excel writes the file or raises, and the
\* exception is caught
SaveToExcel ==
    /\ pc = "save"
    /\ IF SavesStore(run_mode)
       THEN \/ store_version' = store_before + 1
            \/ store_version' = store_version
       ELSE store_version' = store_version
    /\ pc' = "main_done"
    /\ UNCHANGED <<entry, interactive, mode_input, run_mode, user_input, fetched,
                   store_before, varsMainIdle>>

NextMain ==
    \/ ChooseRunMode
    \/ RunTestMode
    \/ RunFullFetch
    \/ StockFilter
    \/ SaveToExcel

SpecMain == InitMain /\ [][NextMain]_vars

\* the frame condition, for a given reading of "the input is test or full"
RunModeFrame(is_test_or_full) ==
    (entry = "main" /\ pc # "choose_run_mode") =>
        /\ run_mode = "test" => (~fetched /\ store_version = store_before)
        /\ store_version # store_before => run_mode = "full"
        /\ (~interactive \/ ~is_test_or_full) =>
              /\ run_mode = "full"
              /\ pc \in {"prompt", "save", "main_done"} => fetched

\* C29 as stated: in test mode nothing is fetched and the store file is left as it
\* was, whatever is answered at the stock-filter prompt; the store is written only
\* in full mode; every input other than 'test' or 'full', and every
\* non-interactive run, behaves as full mode.
C29_AsStated ==
    RunModeFrame(mode_input \in {MODE_TEST, MODE_FULL})

\* C29 amended: the same, for every input that is neither 'test' nor 'full' once
\* blanks around it are stripped and it is lower-cased.
C29_RunModeFrame ==
    RunModeFrame(NormalizedMode(mode_input) \in {MODE_TEST, MODE_FULL})

\* C29 witness: an interactive test-mode run ended, the user having answered yes
\* to the stock filter, with the store file as it was
C29_Witness ==
    /\ entry = "main"
    /\ pc = "main_done"
    /\ interactive
    /\ run_mode = "test"
    /\ user_input = "yes"
    /\ store_before > 0
    /\ store_version = store_before

\* ================================================== do_GET: the stock as typed
\* the values of the stock parameter: symbols in upper, lower and mixed case
GetStocks ==
    { <<"L","T">>, <<"l","t">>, <<"L","t">>, <<"B","S","E">>, <<"b","s","e">>,
      <<"K","E","L","L">>, <<"k","e","l","l">> }

\* do_GET after cache.load(): search_stocks_in_dataframe(cache.df, [stock], ...)
\* with the stock as the request gave it, stripped
InitGet ==
    /\ entry = "SearchHandler.do_GET"
    /\ pc = "search_stocks_in_dataframe"
    /\ df \in Tables
    /\ stocks_list \in {<<s>> : s \in GetStocks}
    /\ empty_assign \in (IF HasSourceRows(df) \/ df = <<>>
                         THEN {"none"} ELSE EMPTY_ASSIGN_OUTCOMES)
    /\ stock_i = 0
    /\ mask = <<>>
    /\ matched_map = <<>>
    /\ matched_df = <<>>
    /\ page_count = 0
    /\ needs_chunk = FALSE
    /\ InitPdfIdle
    /\ InitNeedsIdle
    /\ InitMatchIdle
    /\ InitSrvIdle

SpecGet == InitGet /\ [][NextSearch]_vars

\* the 'stock' label of the response: stock.upper()
StockLabel(stock) == SubSeq(StrUpper(stock), 1, Len(stock))

\* the rows of the table that a search for one symbol returns
RowsFor(symbol, table, outcome_of_empty) ==
    {i \in 1..Len(table) : CombinedMatch(symbol, table, i, outcome_of_empty)}

\* C30: the response to GET /search?stock=s has the same label and the same rows
\* as the response to the request with s in upper case, on the same store.
C30_StockCaseInsensitive ==
    (entry = "SearchHandler.do_GET" /\ pc = "done") =>
        LET stock == stocks_list[1]
        IN  /\ StockLabel(stock) = StockLabel(StockLabel(stock))
            /\ {matched_df[k].row : k \in 1..Len(matched_df)}
                  = RowsFor(StockLabel(stock), df, empty_assign)

====
